---- MODULE Spec2Model ----
(***************************************************************************)
(* protols: cursor, lexer, recursive-descent parser and document store of  *)
(* the proto_parser crate (src/server/crates/proto_parser).                *)
(*                                                                         *)
(* A text is a sequence of characters (one-character strings); a token     *)
(* value is the sequence of characters of its source slice.  A position is *)
(* the character offset the lexer records (Token.position).  Every parser  *)
(* production is an operator over (tokens, p): p is the index of the next  *)
(* token of the Peekable stream; its result carries the outcome ("ok",     *)
(* "err" for Err(ParseError), "panic" for an abort: unwrap of None/Err,    *)
(* todo!()), the index reached and the value built.  Parser.line is        *)
(* written by peek_kind and read nowhere; it is not carried.               *)
(***************************************************************************)
EXTENDS Integers, Sequences, FiniteSets, TLC

VARIABLES
    input,      \* lexer run: the text given to tokenize
    cur,        \* lexer run: Cursor.current_pos (characters consumed)
    emitted,    \* lexer run: tokens yielded so far by the iterator
    lstatus,    \* lexer run: "running" | "done" (next() = None) | "aborted"
    tokens,     \* parser run: the token stream handed to Parser::new
    p,          \* parser run: index of the next token of the stream
    nodes,      \* parser run: Root.nodes
    errors,     \* parser run: Parser.errors
    pstatus,    \* parser run: "running" | "returned" | "aborted"
    given,      \* parser run: the description the text was rendered from
    trees,      \* Source.trees: path -> ParseResult
    completions,\* Source.completions
    messages,   \* Source.messages: name -> Position
    latest,     \* store run: path -> text of the last parse call that returned
    ret         \* store run: the last call and what it returned

vars == <<input, cur, emitted, lstatus, tokens, p, nodes, errors, pstatus,
          given, trees, completions, messages, latest, ret>>

lexVars == <<input, cur, emitted, lstatus>>
parseVars == <<tokens, p, nodes, errors, pstatus, given>>
storeVars == <<trees, completions, messages, latest, ret>>

-----------------------------------------------------------------------------
(* Characters                                                              *)

EOF_CHAR == "NUL"

Lower == {"a","b","c","d","e","f","g","h","i","j","k","l","m",
          "n","o","p","q","r","s","t","u","v","w","x","y","z"}
Upper == {"A","B","C","D","E","F","G","H","I","J","K","L","M",
          "N","O","P","Q","R","S","T","U","V","W","X","Y","Z"}

is_ascii_alphabetic(c) == c \in Lower \cup Upper

DecDigits == {"0","1","2","3","4","5","6","7","8","9"}
OctDigits == {"0","1","2","3","4","5","6","7"}
HexDigits == DecDigits \cup {"a","b","c","d","e","f","A","B","C","D","E","F"}

is_digit(c, radix) ==
    CASE radix = 8 -> c \in OctDigits
      [] radix = 10 -> c \in DecDigits
      [] radix = 16 -> c \in HexDigits

is_ascii_alphanumeric(c) == is_ascii_alphabetic(c) \/ is_digit(c, 10)

is_whitespace(c) == c \in {" ", "\t", "\n", "\r", "\f"}

DigitValue(c) ==
    CASE c = "0" -> 0 [] c = "1" -> 1 [] c = "2" -> 2 [] c = "3" -> 3
      [] c = "4" -> 4 [] c = "5" -> 5 [] c = "6" -> 6 [] c = "7" -> 7
      [] c = "8" -> 8 [] c = "9" -> 9

RECURSIVE Str(_)
Str(cs) == IF cs = <<>> THEN "" ELSE cs[1] \o Str(Tail(cs))

-----------------------------------------------------------------------------
(* Lexer tables                                                            *)

KEYWORD ==
    [syntax |-> "Keyword(Syntax)", import |-> "Keyword(Import)",
     weak |-> "Keyword(Weak)", public |-> "Keyword(Public)",
     package |-> "Keyword(Package)", option |-> "Keyword(Option)",
     inf |-> "Keyword(Inf)", repeated |-> "Keyword(Repeated)",
     optional |-> "Keyword(Optional)", required |-> "Keyword(Required)",
     bool |-> "Keyword(Bool)", string |-> "Keyword(String)",
     bytes |-> "Keyword(Bytes)", float |-> "Keyword(Float)",
     double |-> "Keyword(Double)", int32 |-> "Keyword(Int32)",
     int64 |-> "Keyword(Int64)", uint32 |-> "Keyword(Uint32)",
     uint64 |-> "Keyword(Uint64)", sint32 |-> "Keyword(Sint32)",
     sint64 |-> "Keyword(Sint64)", fixed32 |-> "Keyword(Fixed32)",
     fixed64 |-> "Keyword(Fixed64)", sfixed32 |-> "Keyword(SFixed32)",
     sfixed64 |-> "Keyword(SFixed64)", group |-> "Keyword(Group)",
     oneof |-> "Keyword(Oneof)", map |-> "Keyword(Map)",
     extensions |-> "Keyword(Extensions)", to |-> "Keyword(To)",
     max |-> "Keyword(Max)", reserved |-> "Keyword(Reserved)",
     enum |-> "Keyword(Enum)", message |-> "Keyword(Message)",
     extend |-> "Keyword(Extend)", service |-> "Keyword(Service)",
     rpc |-> "Keyword(Rpc)", stream |-> "Keyword(Stream)",
     returns |-> "Keyword(Returns)"]

OPERATORS ==
    (";" :> "SemiColon") @@ ("," :> "Comma") @@ ("." :> "Dot") @@
    ("/" :> "Slash") @@ (":" :> "Colon") @@ ("=" :> "Equals") @@
    ("-" :> "Minus") @@ ("+" :> "Plus") @@ ("(" :> "LParen") @@
    (")" :> "RParen") @@ ("{" :> "LBrace") @@ ("}" :> "RBrace") @@
    ("[" :> "LBracket") @@ ("]" :> "RBracket") @@ ("<" :> "LAngle") @@
    (">" :> "RAngle")

is_scalar(kind) ==
    kind \in {"Keyword(String)", "Keyword(Bool)", "Keyword(Bytes)",
              "Keyword(Float)", "Keyword(Double)", "Keyword(Int32)",
              "Keyword(Int64)", "Keyword(Uint32)", "Keyword(Uint64)",
              "Keyword(Sint32)", "Keyword(Sint64)", "Keyword(Fixed32)",
              "Keyword(Fixed64)", "Keyword(SFixed32)", "Keyword(SFixed64)"}

\* An is_map_key_type of the integral types only.
is_map_key_type_integral(kind) ==
    kind \in {"Keyword(Int32)", "Keyword(Int64)", "Keyword(Uint32)",
              "Keyword(Uint64)", "Keyword(Sint32)", "Keyword(Sint64)",
              "Keyword(Fixed32)", "Keyword(Fixed64)", "Keyword(SFixed32)",
              "Keyword(SFixed64)"}

is_map_key_type(kind) ==
    kind \in {"Keyword(Int32)", "Keyword(Int64)", "Keyword(Uint32)",
              "Keyword(Uint64)", "Keyword(Sint32)", "Keyword(Sint64)",
              "Keyword(Fixed32)", "Keyword(Fixed64)", "Keyword(SFixed32)",
              "Keyword(SFixed64)", "Keyword(Bool)", "Keyword(String)"}

Token(value, kind, position) ==
    [value |-> value, kind |-> kind, position |-> position]

-----------------------------------------------------------------------------
(* Cursor: s is the text, n the number of characters consumed              *)

first(s, n) == IF n < Len(s) THEN s[n + 1] ELSE EOF_CHAR

second(s, n) == IF n + 1 < Len(s) THEN s[n + 2] ELSE EOF_CHAR

is_eof(s, n) == n >= Len(s)

\* A lexer step: the token built, the cursor after it, and whether the
\* step aborted instead (unwrap of None, todo!()).
Lexed(tok, n) == [tok |-> tok, n |-> n, panic |-> FALSE]
LexPanic(n) == [tok |-> Token(<<>>, "Unknown", n), n |-> n, panic |-> TRUE]

-----------------------------------------------------------------------------
(* Lexer                                                                   *)

\* Cursor::string: the loop pushes bump().unwrap() until first() is the
\* opening quote; at end of text first() is EOF_CHAR and bump() is None.
RECURSIVE string_end(_, _, _)
string_end(s, n, c) ==
    IF first(s, n) = c /\ ~is_eof(s, n) THEN n + 1
    ELSE IF first(s, n) = c THEN -1
    ELSE IF is_eof(s, n) THEN -1
    ELSE string_end(s, n + 1, c)

\* A string token that holds the characters between the quotes only.
string_unquoted(s, n, c, pos) ==
    LET e == string_end(s, n, c) IN
    IF e < 0 THEN LexPanic(n)
    ELSE Lexed(Token(SubSeq(s, pos + 2, e - 1), "String", pos), e)

string(s, n, c, pos) ==
    LET e == string_end(s, n, c) IN
    IF e < 0 THEN LexPanic(n)
    ELSE Lexed(Token(SubSeq(s, pos + 1, e), "String", pos), e)

\* The greedy run of numeric_literal: index after the last character taken.
RECURSIVE numeric_run(_, _)
numeric_run(s, n) ==
    LET next == first(s, n) IN
    IF ~is_eof(s, n) /\ (\/ is_digit(next, 10)
                         \/ next \in {".", "e", "E", "+", "-"}
                         \/ is_ascii_alphabetic(next))
    THEN numeric_run(s, n + 1)
    ELSE n

\* The float validation loop over value.chars(): k is the index of the next
\* character of v.  Result: "FloatLiteral", "Unknown" or "panic".
RECURSIVE float_loop(_, _, _, _)
float_loop(v, k, has_point, has_e) ==
    IF k > Len(v) THEN "FloatLiteral"
    ELSE LET c == v[k] IN
         IF c \in {"e", "E"} THEN
             IF has_e THEN "Unknown"
             ELSE IF k + 1 > Len(v) THEN "Unknown"
             ELSE IF v[k + 1] \in {"+", "-"} THEN
                      IF k + 2 > Len(v) THEN "panic"
                      ELSE IF is_digit(v[k + 2], 10)
                           THEN float_loop(v, k + 3, has_point, TRUE)
                           ELSE "Unknown"
             ELSE IF is_digit(v[k + 1], 10)
                  THEN float_loop(v, k + 2, has_point, TRUE)
                  ELSE "Unknown"
         ELSE IF c = "." THEN
             IF has_point \/ has_e THEN "Unknown"
             ELSE float_loop(v, k + 1, TRUE, has_e)
         ELSE float_loop(v, k + 1, has_point, has_e)

\* The classification of the captured run.
numeric_kind(v) ==
    IF \E k \in 1..Len(v) : v[k] \in {".", "e", "E"} THEN
        IF v[1] = "." THEN
            IF Len(v) >= 2 /\ is_digit(v[2], 10)
            THEN float_loop(v, 3, TRUE, FALSE)
            ELSE "Unknown"
        ELSE float_loop(v, 2, FALSE, FALSE)
    ELSE IF v[1] = "0" THEN
        IF Len(v) = 1 THEN "IntLiteral"
        ELSE IF v[2] \in {"x", "X"}
                /\ \A k \in 3..Len(v) : is_digit(v[k], 16) THEN "IntLiteral"
        ELSE IF is_digit(v[2], 8)
                /\ \A k \in 3..Len(v) : is_digit(v[k], 8) THEN "IntLiteral"
        ELSE "Unknown"
    ELSE "IntLiteral"

numeric_literal(s, n, pos) ==
    LET e == numeric_run(s, n)
        v == SubSeq(s, pos + 1, e)
        kind == numeric_kind(v)
    IN IF kind = "panic" THEN LexPanic(e) ELSE Lexed(Token(v, kind, pos), e)

RECURSIVE identifier_run(_, _)
identifier_run(s, n) ==
    LET c == first(s, n) IN
    IF ~is_eof(s, n) /\ (is_ascii_alphanumeric(c) \/ c = "_")
    THEN identifier_run(s, n + 1)
    ELSE n

\* An identifier_or_keyword that stops at the longest keyword the run starts
\* with, when there is one.
identifier_or_keyword_prefix(s, n, pos) ==
    LET e == identifier_run(s, n)
        ends == {j \in (pos + 1)..e : Str(SubSeq(s, pos + 1, j)) \in DOMAIN KEYWORD}
        j == CHOOSE x \in ends : \A y \in ends : y <= x
    IN IF ends # {}
       THEN Lexed(Token(SubSeq(s, pos + 1, j), KEYWORD[Str(SubSeq(s, pos + 1, j))], pos), j)
       ELSE Lexed(Token(SubSeq(s, pos + 1, e), "Identifier", pos), e)

identifier_or_keyword(s, n, pos) ==
    LET e == identifier_run(s, n)
        v == SubSeq(s, pos + 1, e)
    IN IF Str(v) \in DOMAIN KEYWORD
       THEN Lexed(Token(v, KEYWORD[Str(v)], pos), e)
       ELSE Lexed(Token(v, "Identifier", pos), e)

line_comment(n) == LexPanic(n)

block_comment(n) == LexPanic(n)

RECURSIVE advance_token(_, _)

\* A whitespace that knows `\n` only: `\r` is skipped as a blank is.
whitespace_lf_only(s, m, c, pos) ==
    IF c = "\n" THEN Lexed(Token(<<c>>, "NewLine", pos), m)
    ELSE advance_token(s, m)

\* Cursor::whitespace: c is the whitespace character at pos, m the cursor
\* after it.  After a blank that is no line end it calls advance_token again.
whitespace(s, m, c, pos) ==
    IF c = "\n" THEN Lexed(Token(<<c>>, "NewLine", pos), m)
    ELSE IF c = "\r" THEN
        IF first(s, m) = "\n" /\ ~is_eof(s, m)
        THEN Lexed(Token(<<c, "\n">>, "NewLine", pos), m + 1)
        ELSE Lexed(Token(<<c>>, "Unknown", pos), m)
    ELSE advance_token(s, m)

\* Cursor::advance_token
advance_token(s, n) ==
    LET pos == n
        c == first(s, n)
        m == IF is_eof(s, n) THEN n ELSE n + 1
    IN
    IF is_eof(s, n) THEN Lexed(Token(<<EOF_CHAR>>, "Eof", pos), m)
    ELSE IF c = "/" THEN
        IF first(s, m) = "/" /\ ~is_eof(s, m) THEN line_comment(m)
        ELSE IF first(s, m) = "*" /\ ~is_eof(s, m) THEN block_comment(m)
        ELSE Lexed(Token(<<c>>, "Slash", pos), m)
    ELSE IF c = "_" \/ is_ascii_alphabetic(c) THEN identifier_or_keyword(s, m, pos)
    ELSE IF is_whitespace(c) THEN whitespace(s, m, c, pos)
    ELSE IF is_digit(c, 10) THEN numeric_literal(s, m, pos)
    ELSE IF c = "." /\ is_digit(first(s, m), 10) /\ ~is_eof(s, m)
         THEN numeric_literal(s, m, pos)
    ELSE IF c \in DOMAIN OPERATORS THEN Lexed(Token(<<c>>, OPERATORS[c], pos), m)
    ELSE IF c \in {"\"", "'"} THEN string(s, m, c, pos)
    ELSE IF c = EOF_CHAR THEN Lexed(Token(<<c>>, "Eof", pos), m)
    ELSE Lexed(Token(<<c>>, "Unknown", pos), m)

\* tokenize: the iterator's whole output.  A step that aborts ends the
\* sequence with a token of kind "LexAbort": the run aborts when the
\* consumer pulls that token (the iterator is lazy).
\* tokenize_from: the output of at most `count` calls of next() from
\* offset n, the first half of the calls before the second.
RECURSIVE tokenize_from(_, _, _)
tokenize_from(s, n, count) ==
    IF is_eof(s, n) THEN [toks |-> <<>>, n |-> n, panic |-> FALSE]
    ELSE IF count <= 1 THEN
        LET r == advance_token(s, n) IN
        IF r.panic THEN [toks |-> <<Token(<<>>, "LexAbort", n)>>, n |-> n, panic |-> TRUE]
        ELSE [toks |-> <<r.tok>>, n |-> r.n, panic |-> FALSE]
    ELSE LET a == tokenize_from(s, n, count \div 2) IN
         IF a.panic THEN a
         ELSE LET b == tokenize_from(s, a.n, count - count \div 2) IN
              [toks |-> a.toks \o b.toks, n |-> b.n, panic |-> b.panic]

\* Every call of next() consumes a character: Len(s) calls exhaust s.
tokenize(s) == tokenize_from(s, 0, Len(s)).toks

-----------------------------------------------------------------------------
(* Parser: results and token access                                        *)

\* `let name = value;`: the value is computed once, then the rest of the
\* body F under the binding.
Let(value, F(_)) == CHOOSE result \in {F(bound) : bound \in {value}} : TRUE

Ok(q, v) == [st |-> "ok", p |-> q, v |-> v]
Err(q, message, position) ==
    [st |-> "err", p |-> q, v |-> [message |-> message, position |-> position]]
Abort(q) == [st |-> "panic", p |-> q, v |-> [message |-> "panic", position |-> 0]]

Node(value, start, end) == [value |-> value, start |-> start, end |-> end]

\* peek_kind consumes the NewLine tokens in front of the stream: after_peek
\* is the index it leaves, peek_kind the kind it returns.
RECURSIVE after_peek(_, _)
after_peek(toks, q) ==
    IF q <= Len(toks) /\ toks[q].kind = "NewLine" THEN after_peek(toks, q + 1)
    ELSE q

peek_kind(toks, q) ==
    Let(after_peek(toks, q), LAMBDA k :
    IF k <= Len(toks) THEN toks[k].kind ELSE "None")

is_at_end(toks, q) == peek_kind(toks, q) \in {"Eof", "None"}

\* Err(ParseError) at the peeked token: self.tokens.peek().unwrap().position
\* aborts when the stream is exhausted.
ErrAtPeek(toks, q, message) ==
    Let(after_peek(toks, q), LAMBDA k :
    IF k <= Len(toks) THEN Err(k, message, toks[k].position) ELSE Abort(k))

expect(toks, q, token_kind) ==
    Let(after_peek(toks, q), LAMBDA k :
    IF k <= Len(toks) /\ toks[k].kind = token_kind THEN Ok(k + 1, toks[k])
    ELSE ErrAtPeek(toks, q, "Expected token"))

\* sync that returns at once.
sync_at_once(toks, q) == q

\* sync that takes `;` alone for a synchronizing token.
RECURSIVE sync_to_semicolon(_, _)
sync_to_semicolon(toks, q) ==
    IF q > Len(toks) THEN q
    ELSE IF toks[q].kind = "SemiColon" THEN q + 1
    ELSE sync_to_semicolon(toks, q + 1)

\* sync: the index after the first `}` or `;` at or after q, or the end.
RECURSIVE sync(_, _)
sync(toks, q) ==
    IF q > Len(toks) THEN q
    ELSE IF toks[q].kind \in {"RBrace", "SemiColon"} THEN q + 1
    ELSE sync(toks, q + 1)

\* str::parse of an unsigned decimal: an optional '+', then digits.
\* Significant: the digits without leading zeros.
RECURSIVE Significant(_)
Significant(cs) ==
    IF cs # <<>> /\ cs[1] = "0" THEN Significant(Tail(cs)) ELSE cs

RECURSIVE DecimalValue(_, _)
DecimalValue(cs, acc) ==
    IF cs = <<>> THEN acc ELSE DecimalValue(Tail(cs), acc * 10 + DigitValue(cs[1]))

IsDecimal(cs) == cs # <<>> /\ \A k \in 1..Len(cs) : cs[k] \in DecDigits

Unsigned(cs) == IF cs # <<>> /\ cs[1] = "+" THEN Tail(cs) ELSE cs

\* The value of the first nine significant digits, and the tenth digit.
Leading(sd) == DecimalValue(SubSeq(sd, 1, IF Len(sd) < 9 THEN Len(sd) ELSE 9), 0)
Tenth(sd) == IF Len(sd) >= 10 THEN DigitValue(sd[10]) ELSE 0

\* value.parse::<u32>(): [ok, n].  A value above i32::MAX is carried as
\* value - 2^32 (its 32-bit pattern), computed without leaving the
\* 32-bit integers of TLC.
parse_u32(cs) ==
    IF ~IsDecimal(Unsigned(cs)) THEN [ok |-> FALSE, n |-> 0] ELSE
    Let(Significant(Unsigned(cs)), LAMBDA sd :
    Let(Leading(sd), LAMBDA h :
    Let(Tenth(sd), LAMBDA d :
    IF Len(sd) <= 9 THEN [ok |-> TRUE, n |-> DecimalValue(sd, 0)]
    ELSE IF Len(sd) > 10 \/ h > 429496729 THEN [ok |-> FALSE, n |-> 0]
    ELSE IF h < 214748364 \/ (h = 214748364 /\ d <= 7)
         THEN [ok |-> TRUE, n |-> h * 10 + d]
    ELSE IF (h - 429496728) * 10 + (d - 16) >= 0 THEN [ok |-> FALSE, n |-> 0]
    ELSE [ok |-> TRUE, n |-> (h - 429496728) * 10 + (d - 16)])))

\* value.parse::<i32>() of a token value (which carries no '-').
parse_i32(cs) ==
    IF ~IsDecimal(Unsigned(cs)) THEN [ok |-> FALSE, n |-> 0] ELSE
    Let(Significant(Unsigned(cs)), LAMBDA sd :
    Let(Leading(sd), LAMBDA h :
    Let(Tenth(sd), LAMBDA d :
    IF Len(sd) <= 9 THEN [ok |-> TRUE, n |-> DecimalValue(sd, 0)]
    ELSE IF Len(sd) = 10 /\ (h < 214748364 \/ (h = 214748364 /\ d <= 7))
         THEN [ok |-> TRUE, n |-> h * 10 + d]
    ELSE [ok |-> FALSE, n |-> 0])))

-----------------------------------------------------------------------------
(* Parser: names, strings, options                                         *)

RECURSIVE qualified_identifier_loop(_, _, _, _)
qualified_identifier_loop(toks, q, start, identifiers) ==
    Let(after_peek(toks, q), LAMBDA k :
    IF peek_kind(toks, q) = "Dot" THEN
        Let(expect(toks, k + 1, "Identifier"), LAMBDA r :
        IF r.st # "ok" THEN r
        ELSE qualified_identifier_loop(toks, r.p, start, Append(identifiers, r.v.value)))
    ELSE IF k > Len(toks) THEN Abort(k)
    ELSE Ok(k, Node(identifiers, start, toks[k].position)))

qualified_identifier(toks, q) ==
    Let(expect(toks, q, "Identifier"), LAMBDA r :
    IF r.st # "ok" THEN r
    ELSE qualified_identifier_loop(toks, r.p, r.v.position, <<r.v.value>>))

RECURSIVE string_loop(_, _, _, _, _)
string_loop(toks, q, start, str, end) ==
    Let(after_peek(toks, q), LAMBDA k :
    IF peek_kind(toks, q) = "String"
    THEN string_loop(toks, k + 1, start, str \o toks[k].value,
                     toks[k].position + Len(toks[k].value))
    ELSE Ok(k, Node(<<"\"">> \o SelectSeq(str, LAMBDA c : c # "\"") \o <<"\"">>,
                    start, end)))

parse_string(toks, q) ==
    Let(expect(toks, q, "String"), LAMBDA r :
    IF r.st # "ok" THEN r
    ELSE string_loop(toks, r.p, r.v.position, r.v.value,
                     r.v.position + Len(r.v.value)))

type_name(toks, q) ==
    Let(after_peek(toks, q), LAMBDA k :
    Let(peek_kind(toks, q) = "Dot", LAMBDA absolute :
    Let(qualified_identifier(toks, IF absolute THEN k + 1 ELSE k), LAMBDA r : IF r.st # "ok" THEN r
       ELSE Ok(r.p, Node([absolute |-> absolute, parts |-> r.v.value],
                         IF absolute THEN r.v.start - 1 ELSE r.v.start,
                         r.v.end)))))

RECURSIVE option_name_loop(_, _, _)
option_name_loop(toks, q, name) ==
    Let(after_peek(toks, q), LAMBDA k :
    Let(peek_kind(toks, q), LAMBDA kind :
    IF kind = "Identifier" THEN
        option_name_loop(toks, k + 1,
            Append(name, Node([type |-> "SimpleName", name |-> toks[k].value],
                              toks[k].position,
                              toks[k].position + Len(toks[k].value))))
    ELSE IF kind = "LParen" THEN
        Let(qualified_identifier(toks, k), LAMBDA r :
        IF r.st # "ok" THEN r
        ELSE option_name_loop(toks, r.p,
                Append(name, Node([type |-> "ExtensionName",
                                   name |-> [absolute |-> FALSE, parts |-> r.v.value]],
                                  r.v.start, r.v.end))))
    ELSE IF name = <<>> THEN ErrAtPeek(toks, q, "Expected option name")
    ELSE Ok(k, Node(name, name[1].start, name[Len(name)].end))))

option_name(toks, q) == option_name_loop(toks, q, <<>>)

\* The literal after a sign token in option_value.
signed_literal(toks, q, start, sign, int_type) ==
    Let(after_peek(toks, q), LAMBDA k :
    Let(peek_kind(toks, q), LAMBDA kind :
    IF kind = "IntLiteral" THEN
        Ok(k + 1, Node([type |-> int_type, value |-> <<sign>> \o toks[k].value],
                       start, start + Len(toks[k].value)))
    ELSE IF kind = "FloatLiteral" THEN
        Ok(k + 1, Node([type |-> "FloatLiteral", value |-> <<sign>> \o toks[k].value],
                       start, start + Len(toks[k].value)))
    ELSE Err(k, "Expected int or float literal", start)))

option_value(toks, q) ==
    Let(after_peek(toks, q), LAMBDA k :
    Let(peek_kind(toks, q), LAMBDA kind :
    LET Lit(type) == Ok(k + 1, Node([type |-> type, value |-> toks[k].value],
                                    toks[k].position,
                                    toks[k].position + Len(toks[k].value))) IN
    CASE kind = "String" -> Lit("StringLiteral")
      [] kind = "Minus" -> signed_literal(toks, k + 1, toks[k].position, "-", "IntLiteral")
      [] kind = "Plus" -> signed_literal(toks, k + 1, toks[k].position, "+", "UintLiteral")
      [] kind = "IntLiteral" -> Lit("UintLiteral")
      [] kind = "FloatLiteral" -> Lit("FloatLiteral")
      [] kind = "Identifier" -> Lit("Identifier")
      [] OTHER -> ErrAtPeek(toks, q, "Expected option value")))

option_node(toks, q) ==
    Let(after_peek(toks, q), LAMBDA k :
    Let(peek_kind(toks, q) = "Keyword(Option)", LAMBDA keyword :
    Let(option_name(toks, IF keyword THEN k + 1 ELSE k), LAMBDA rn :
    IF rn.st # "ok" THEN rn ELSE
    Let(IF keyword THEN toks[k].position ELSE rn.v.start, LAMBDA start :
    Let(expect(toks, rn.p, "Equals"), LAMBDA re :
    IF re.st # "ok" THEN re ELSE
    Let(option_value(toks, re.p), LAMBDA rv :
    IF rv.st # "ok" THEN rv ELSE
    Let([name |-> rn.v, value |-> rv.v], LAMBDA value :
    IF start # rn.v.start THEN
        Let(expect(toks, rv.p, "SemiColon"), LAMBDA rs :
        IF rs.st # "ok" THEN rs
        ELSE Ok(rs.p, Node(value, start, rs.v.position)))
    ELSE Ok(rv.p, Node(value, start, rv.v.end)))))))))

RECURSIVE compact_options_loop(_, _, _)
compact_options_loop(toks, q, options) ==
    IF peek_kind(toks, q) = "RBracket" THEN
        Ok(after_peek(toks, q) + 1, options)
    ELSE
        Let(option_node(toks, q), LAMBDA r :
        IF r.st # "ok" THEN r
        ELSE Let(after_peek(toks, r.p), LAMBDA k :
             compact_options_loop(toks,
                 IF peek_kind(toks, r.p) = "Comma" THEN k + 1 ELSE k,
                 Append(options, r.v))))

compact_options(toks, q) ==
    Let(expect(toks, q, "LBracket"), LAMBDA r :
    IF r.st # "ok" THEN r ELSE compact_options_loop(toks, r.p, <<>>))

\* `if let Some(LBracket) = peek_kind() { compact_options()? } else { vec![] }`
field_options(toks, q) ==
    IF peek_kind(toks, q) = "LBracket" THEN compact_options(toks, q)
    ELSE Ok(after_peek(toks, q), <<>>)

-----------------------------------------------------------------------------
(* Parser: reserved, fields, map fields, oneof                             *)

\* The token after `to` in tag_range, taken with advance() (no NewLine
\* skipping).  KEYWORD lexes "max" as Keyword(Max).
tag_end(toks, q) ==
    IF q <= Len(toks) /\ toks[q].kind = "IntLiteral" THEN
        IF parse_u32(toks[q].value).ok
        THEN Ok(q + 1, Node([type |-> "Tag", n |-> parse_u32(toks[q].value).n],
                            toks[q].position, toks[q].position + Len(toks[q].value)))
        ELSE Abort(q + 1)
    ELSE IF q <= Len(toks) /\ toks[q].kind = "Identifier" /\ Str(toks[q].value) = "max" THEN
        Ok(q + 1, Node([type |-> "Max", n |-> 0],
                       toks[q].position, toks[q].position + Len(toks[q].value)))
    ELSE IF q + 1 <= Len(toks) THEN Err(q + 1, "Expected tag end", toks[q + 1].position)
    ELSE Abort(q)

RECURSIVE tag_range(_, _, _)
tag_range(toks, q, ranges) ==
    Let(expect(toks, q, "IntLiteral"), LAMBDA rs :
    IF rs.st # "ok" THEN rs ELSE
    Let(peek_kind(toks, rs.p) = "Keyword(To)", LAMBDA has_to :
    Let(IF has_to THEN tag_end(toks, after_peek(toks, rs.p) + 1)
              ELSE Ok(after_peek(toks, rs.p), <<>>), LAMBDA re :
    IF re.st # "ok" THEN re
    ELSE IF ~parse_u32(rs.v.value).ok THEN Abort(re.p)
    ELSE
    Let(Node(parse_u32(rs.v.value).n, rs.v.position,
                      rs.v.position + Len(rs.v.value)), LAMBDA start :
    Let(Node([start |-> start, end |-> IF has_to THEN <<re.v>> ELSE <<>>],
                      start.start, IF has_to THEN re.v.end ELSE start.end), LAMBDA range :
    Let(after_peek(toks, re.p), LAMBDA k :
    IF peek_kind(toks, re.p) = "Comma"
    THEN tag_range(toks, k + 1, Append(ranges, range))
    ELSE Ok(k, Append(ranges, range))))))))

RECURSIVE reserved_names(_, _, _)
reserved_names(toks, q, names) ==
    Let(parse_string(toks, q), LAMBDA r :
    IF r.st # "ok" THEN r
    ELSE IF peek_kind(toks, r.p) = "Comma"
         THEN reserved_names(toks, after_peek(toks, r.p) + 1, Append(names, r.v))
         ELSE Ok(after_peek(toks, r.p), Append(names, r.v)))

reserved_node(toks, q) ==
    Let(expect(toks, q, "Keyword(Reserved)"), LAMBDA rk :
    IF rk.st # "ok" THEN rk ELSE
    Let(peek_kind(toks, rk.p), LAMBDA kind :
    IF kind = "IntLiteral" THEN
        Let(tag_range(toks, rk.p, <<>>), LAMBDA r :
        IF r.st # "ok" THEN r
        ELSE Ok(r.p, Node([type |-> "TagRanges", items |-> r.v],
                          rk.v.position, r.v[Len(r.v)].end)))
    ELSE IF kind = "String" THEN
        Let(reserved_names(toks, rk.p, <<>>), LAMBDA r :
        IF r.st # "ok" THEN r
        ELSE Ok(r.p, Node([type |-> "Names", items |-> r.v],
                          rk.v.position, r.v[Len(r.v)].end)))
    ELSE ErrAtPeek(toks, rk.p, "Expected reserved range or names")))

CardinalityOf(kind) ==
    CASE kind = "Keyword(Required)" -> "Required"
      [] kind = "Keyword(Optional)" -> "Optional"
      [] kind = "Keyword(Repeated)" -> "Repeated"

\* A field_cardinality whose default, when no keyword is written, is Required.
field_cardinality_required(toks, q) ==
    IF peek_kind(toks, q) \in {"Keyword(Required)", "Keyword(Optional)", "Keyword(Repeated)"}
    THEN Ok(after_peek(toks, q) + 1,
            Node(CardinalityOf(peek_kind(toks, q)), toks[after_peek(toks, q)].position,
                 toks[after_peek(toks, q)].position + Len(toks[after_peek(toks, q)].value)))
    ELSE Ok(after_peek(toks, q), Node("Required", 0, 0))

field_cardinality(toks, q) ==
    Let(after_peek(toks, q), LAMBDA k :
    Let(peek_kind(toks, q), LAMBDA kind :
    IF kind \in {"Keyword(Required)", "Keyword(Optional)", "Keyword(Repeated)"} THEN
        Ok(k + 1, Node(CardinalityOf(kind), toks[k].position,
                       toks[k].position + Len(toks[k].value)))
    ELSE IF is_scalar(kind) \/ kind \in {"Dot", "Identifier"} THEN
        Ok(k, Node("Optional", 0, 0))
    ELSE ErrAtPeek(toks, q, "Expected field cardinality")))

\* ScalarType::try_from(TokenKind) / MapKeyType::try_from(TokenKind)
ScalarType(kind) ==
    CASE kind = "Keyword(Double)" -> "Double" [] kind = "Keyword(Float)" -> "Float"
      [] kind = "Keyword(Int32)" -> "Int32" [] kind = "Keyword(Int64)" -> "Int64"
      [] kind = "Keyword(Uint32)" -> "Uint32" [] kind = "Keyword(Uint64)" -> "Uint64"
      [] kind = "Keyword(Sint32)" -> "Sint32" [] kind = "Keyword(Sint64)" -> "Sint64"
      [] kind = "Keyword(Fixed32)" -> "Fixed32" [] kind = "Keyword(Fixed64)" -> "Fixed64"
      [] kind = "Keyword(SFixed32)" -> "Sfixed32" [] kind = "Keyword(SFixed64)" -> "Sfixed64"
      [] kind = "Keyword(Bool)" -> "Bool" [] kind = "Keyword(String)" -> "String"
      [] kind = "Keyword(Bytes)" -> "Bytes" [] OTHER -> "Err"

MapKeyType(kind) ==
    CASE kind = "Keyword(Int32)" -> "Int32" [] kind = "Keyword(Int64)" -> "Int64"
      [] kind = "Keyword(Uint32)" -> "Uint32" [] kind = "Keyword(Uint64)" -> "Uint64"
      [] kind = "Keyword(Sint32)" -> "Sint32" [] kind = "Keyword(Sint64)" -> "Sint64"
      [] kind = "Keyword(Fixed32)" -> "Fixed32" [] kind = "Keyword(Fixed64)" -> "Fixed64"
      [] kind = "Keyword(SFixed32)" -> "Sfixed32" [] kind = "Keyword(SFixed64)" -> "Sfixed64"
      [] kind = "Keyword(Bool)" -> "Bool" [] kind = "Keyword(String)" -> "String"
      [] OTHER -> "Err"

\* FieldType: ScalarType(s) or TypeName(name)
field_type(toks, q) ==
    Let(after_peek(toks, q), LAMBDA k :
    Let(peek_kind(toks, q), LAMBDA kind :
    IF kind \in {"Identifier", "Dot"} THEN
        Let(type_name(toks, q), LAMBDA r :
        IF r.st # "ok" THEN r
        ELSE Ok(r.p, Node([type |-> "TypeName", scalar |-> "-", name |-> r.v.value],
                          r.v.start, r.v.end)))
    ELSE IF is_scalar(kind) THEN
        Ok(k + 1, Node([type |-> "ScalarType", scalar |-> ScalarType(kind),
                        name |-> [absolute |-> FALSE, parts |-> <<>>]],
                       toks[k].position, toks[k].position + Len(toks[k].value)))
    ELSE ErrAtPeek(toks, q, "Expected field type")))

field_number(toks, q) ==
    Let(expect(toks, q, "IntLiteral"), LAMBDA r :
    IF r.st # "ok" THEN r
    ELSE IF ~parse_u32(r.v.value).ok THEN Abort(r.p)
    ELSE Ok(r.p, Node(parse_u32(r.v.value).n, r.v.position,
                      r.v.position + Len(r.v.value))))

field_name(toks, q) ==
    Let(expect(toks, q, "Identifier"), LAMBDA r :
    IF r.st # "ok" THEN r
    ELSE Ok(r.p, Node(r.v.value, r.v.position, r.v.position + Len(r.v.value))))

field_decl(toks, q) ==
    Let(field_cardinality(toks, q), LAMBDA rc :
    IF rc.st # "ok" THEN rc ELSE
    Let(field_type(toks, rc.p), LAMBDA rt :
    IF rt.st # "ok" THEN rt ELSE
    Let(IF rc.v.start = 0
                       THEN Node(rc.v.value, rt.v.start, rt.v.start)
                       ELSE rc.v, LAMBDA cardinality :
    Let(field_name(toks, rt.p), LAMBDA rn :
    IF rn.st # "ok" THEN rn ELSE
    Let(expect(toks, rn.p, "Equals"), LAMBDA re :
    IF re.st # "ok" THEN re ELSE
    Let(field_number(toks, re.p), LAMBDA rnum :
    IF rnum.st # "ok" THEN rnum ELSE
    Let(field_options(toks, rnum.p), LAMBDA ro :
    IF ro.st # "ok" THEN ro ELSE
    Let(expect(toks, ro.p, "SemiColon"), LAMBDA rs :
    IF rs.st # "ok" THEN rs
    ELSE Ok(rs.p, Node([cardinality |-> cardinality, type_name |-> rt.v,
                        name |-> rn.v, number |-> rnum.v, options |-> ro.v],
                       cardinality.start, rs.v.position))))))))))

map_key_type(toks, q) ==
    Let(after_peek(toks, q), LAMBDA k :
    IF is_map_key_type(peek_kind(toks, q)) THEN
        IF MapKeyType(toks[k].kind) = "Err" THEN Err(k + 1, "Invalid map key type", toks[k].position)
        ELSE Ok(k + 1, Node(MapKeyType(toks[k].kind), toks[k].position,
                            toks[k].position + Len(toks[k].value)))
    ELSE ErrAtPeek(toks, q, "Expected map key type"))

map_field_decl(toks, q) ==
    Let(expect(toks, q, "Keyword(Map)"), LAMBDA rm :
    IF rm.st # "ok" THEN rm ELSE
    Let(expect(toks, rm.p, "LAngle"), LAMBDA rl :
    IF rl.st # "ok" THEN rl ELSE
    Let(map_key_type(toks, rl.p), LAMBDA rk :
    IF rk.st # "ok" THEN rk ELSE
    Let(expect(toks, rk.p, "Comma"), LAMBDA rc :
    IF rc.st # "ok" THEN rc ELSE
    Let(field_type(toks, rc.p), LAMBDA rv :
    IF rv.st # "ok" THEN rv ELSE
    Let(expect(toks, rv.p, "RAngle"), LAMBDA rr :
    IF rr.st # "ok" THEN rr ELSE
    Let(field_name(toks, rr.p), LAMBDA rn :
    IF rn.st # "ok" THEN rn ELSE
    Let(expect(toks, rn.p, "Equals"), LAMBDA re :
    IF re.st # "ok" THEN re ELSE
    Let(field_number(toks, re.p), LAMBDA rnum :
    IF rnum.st # "ok" THEN rnum ELSE
    Let(field_options(toks, rnum.p), LAMBDA ro :
    IF ro.st # "ok" THEN ro ELSE
    Let(expect(toks, ro.p, "SemiColon"), LAMBDA rs :
    IF rs.st # "ok" THEN rs
    ELSE Ok(rs.p, Node([key_type |-> rk.v, value_type |-> rv.v, name |-> rn.v,
                        number |-> rnum.v, options |-> ro.v],
                       rm.v.position, rs.v.position)))))))))))))

\* options: None (<<>>) or Some(list) (<<list>>); the list is read only when
\* the token after the number is `}`.
oneof_field_decl(toks, q) ==
    Let(IF peek_kind(toks, q) \in {"Identifier", "Dot"} \/ is_scalar(peek_kind(toks, q))
              THEN field_type(toks, q)
              ELSE ErrAtPeek(toks, q, "Expected oneof field type"), LAMBDA rt :
    IF rt.st # "ok" THEN rt ELSE
    Let(field_name(toks, rt.p), LAMBDA rn :
    IF rn.st # "ok" THEN rn ELSE
    Let(expect(toks, rn.p, "Equals"), LAMBDA re :
    IF re.st # "ok" THEN re ELSE
    Let(field_number(toks, re.p), LAMBDA rnum :
    IF rnum.st # "ok" THEN rnum ELSE
    Let(IF peek_kind(toks, rnum.p) = "RBrace"
              THEN compact_options(toks, rnum.p)
              ELSE Ok(after_peek(toks, rnum.p), <<>>), LAMBDA ro :
    IF ro.st # "ok" THEN ro ELSE
    Let(expect(toks, ro.p, "SemiColon"), LAMBDA rs :
    IF rs.st # "ok" THEN rs
    ELSE Ok(rs.p, Node([type_name |-> rt.v, name |-> rn.v, number |-> rnum.v,
                        options |-> IF peek_kind(toks, rnum.p) = "RBrace"
                                    THEN <<ro.v>> ELSE <<>>],
                       rt.v.start, rs.v.position))))))))

oneof_element(toks, q) ==
    Let(peek_kind(toks, q), LAMBDA kind :
    IF kind = "Keyword(Option)" THEN
        Let(option_node(toks, q), LAMBDA r :
        IF r.st # "ok" THEN r
        ELSE Ok(r.p, Node([type |-> "Option", decl |-> r.v.value], r.v.start, r.v.end)))
    ELSE IF kind \in {"Identifier", "Dot"} \/ is_scalar(kind) THEN
        Let(oneof_field_decl(toks, q), LAMBDA r :
        IF r.st # "ok" THEN r
        ELSE Ok(r.p, Node([type |-> "OneofField", decl |-> r.v.value], r.v.start, r.v.end)))
    ELSE ErrAtPeek(toks, q, "Expected oneof element"))

RECURSIVE oneof_elements(_, _, _)
oneof_elements(toks, q, elements) ==
    IF peek_kind(toks, q) = "RBrace" THEN Ok(after_peek(toks, q), elements)
    ELSE Let(oneof_element(toks, q), LAMBDA r :
         IF r.st # "ok" THEN r
         ELSE oneof_elements(toks, r.p, Append(elements, r.v)))

oneof_node(toks, q) ==
    Let(expect(toks, q, "Keyword(Oneof)"), LAMBDA rk :
    IF rk.st # "ok" THEN rk ELSE
    Let(expect(toks, rk.p, "Identifier"), LAMBDA rn :
    IF rn.st # "ok" THEN rn ELSE
    Let(expect(toks, rn.p, "LBrace"), LAMBDA rl :
    IF rl.st # "ok" THEN rl ELSE
    Let(oneof_elements(toks, rl.p, <<>>), LAMBDA rs :
    IF rs.st # "ok" THEN rs ELSE
    Let(expect(toks, rs.p, "RBrace"), LAMBDA rb :
    IF rb.st # "ok" THEN rb
    ELSE Ok(rb.p, Node([name |-> Node(rn.v.value, rn.v.position,
                                      rn.v.position + Len(rn.v.value)),
                        elements |-> rs.v],
                       rk.v.position, rb.v.position)))))))

-----------------------------------------------------------------------------
(* Parser: enum, service, extend                                           *)

enum_value(toks, q) ==
    Let(toks[q], LAMBDA value_name :
    Let(expect(toks, q + 1, "Equals"), LAMBDA re :
    IF re.st # "ok" THEN re ELSE
    Let(peek_kind(toks, re.p) = "Minus", LAMBDA minus :
    Let(expect(toks, IF minus THEN after_peek(toks, re.p) + 1 ELSE re.p,
                     "IntLiteral"), LAMBDA rv :
    IF rv.st # "ok" THEN rv ELSE
    Let(field_options(toks, rv.p), LAMBDA ro :
    IF ro.st # "ok" THEN ro ELSE
    Let(expect(toks, ro.p, "SemiColon"), LAMBDA rs :
    IF rs.st # "ok" THEN rs
    ELSE IF ~parse_i32(rv.v.value).ok THEN Abort(rs.p)
    ELSE Ok(rs.p, Node([type |-> "EnumValue", name |-> value_name.value,
                        number |-> (IF minus THEN -1 ELSE 1) * parse_i32(rv.v.value).n,
                        options |-> ro.v],
                       value_name.position, rs.v.position))))))))

enum_element(toks, q) ==
    Let(after_peek(toks, q), LAMBDA k :
    Let(peek_kind(toks, q), LAMBDA kind :
    IF kind = "Keyword(Option)" THEN
        Let(option_node(toks, q), LAMBDA r :
        IF r.st # "ok" THEN r
        ELSE Ok(r.p, Node([type |-> "EnumOption", decl |-> r.v.value], r.v.start, r.v.end)))
    ELSE IF kind = "Identifier" THEN enum_value(toks, k)
    ELSE IF kind = "Keyword(Reserved)" THEN
        Let(reserved_node(toks, q), LAMBDA r :
        IF r.st # "ok" THEN r
        ELSE Ok(r.p, Node([type |-> "EnumReserved", decl |-> r.v.value], r.v.start, r.v.end)))
    ELSE IF kind = "SemiColon" THEN
        Ok(k + 1, Node([type |-> "Empty"], toks[k].position, toks[k].position))
    ELSE Abort(k)))

RECURSIVE enum_elements_loop(_, _, _)
enum_elements_loop(toks, q, elements) ==
    IF peek_kind(toks, q) = "RBrace" THEN Ok(after_peek(toks, q), elements)
    ELSE Let(enum_element(toks, q), LAMBDA r :
         IF r.st # "ok" THEN r
         ELSE enum_elements_loop(toks, r.p, Append(elements, r.v)))

enum_elements(toks, q) ==
    Let(expect(toks, q, "LBrace"), LAMBDA rl :
    IF rl.st # "ok" THEN rl ELSE
    Let(enum_elements_loop(toks, rl.p, <<>>), LAMBDA rs :
    IF rs.st # "ok" THEN rs ELSE
    Let(expect(toks, rs.p, "RBrace"), LAMBDA rb :
    IF rb.st # "ok" THEN rb ELSE Ok(rb.p, rs.v))))

\* q is the index of the `enum` token (the caller has peeked it).
enum_node(toks, q) ==
    Let(expect(toks, q + 1, "Identifier"), LAMBDA rn :
    IF rn.st # "ok" THEN rn ELSE
    Let(expect(toks, rn.p, "LBrace"), LAMBDA rl :
    IF rl.st # "ok" THEN rl ELSE
    Let(enum_elements(toks, rl.p), LAMBDA rs :
    IF rs.st # "ok" THEN rs ELSE
    Let(expect(toks, rs.p, "RBrace"), LAMBDA rb :
    IF rb.st # "ok" THEN rb
    ELSE Ok(rb.p, Node([name |-> rn.v.value, elements |-> rs.v],
                       toks[q].position, rb.v.position))))))

\* rpc_message_type without the `stream` branch.
rpc_message_type_unflagged(toks, q) ==
    Let(expect(toks, q, "LParen"), LAMBDA rl :
    IF rl.st # "ok" THEN rl ELSE
    Let(type_name(toks, rl.p), LAMBDA rn :
    IF rn.st # "ok" THEN rn ELSE
    Let(expect(toks, rn.p, "RParen"), LAMBDA rr :
    IF rr.st # "ok" THEN rr
    ELSE Ok(rr.p, Node([stream |-> FALSE, type_name |-> rn.v],
                       rl.v.position, rr.v.position)))))

rpc_message_type(toks, q) ==
    Let(expect(toks, q, "LParen"), LAMBDA rl :
    IF rl.st # "ok" THEN rl ELSE
    Let(peek_kind(toks, rl.p) = "Keyword(Stream)", LAMBDA stream :
    Let(type_name(toks, IF stream THEN after_peek(toks, rl.p) + 1 ELSE rl.p), LAMBDA rn :
    IF rn.st # "ok" THEN rn ELSE
    Let(expect(toks, rn.p, "RParen"), LAMBDA rr :
    IF rr.st # "ok" THEN rr
    ELSE Ok(rr.p, Node([stream |-> stream, type_name |-> rn.v],
                       rl.v.position, rr.v.position))))))

\* The loop over the body of an rpc, after its `{`.
RECURSIVE method_elements(_, _, _)
method_elements(toks, q, elements) ==
    Let(after_peek(toks, q), LAMBDA k :
    Let(peek_kind(toks, q), LAMBDA kind :
    IF kind = "Keyword(Option)" THEN
        Let(option_node(toks, q), LAMBDA r :
        IF r.st # "ok" THEN r
        ELSE method_elements(toks, r.p,
                 Append(elements, Node([type |-> "Option", decl |-> r.v.value],
                                       r.v.start, r.v.end))))
    ELSE IF kind = "SemiColon" THEN
        method_elements(toks, k + 1,
            Append(elements, Node([type |-> "Empty"], toks[k].position, toks[k].position)))
    ELSE IF kind = "RBrace" THEN Ok(k, elements)
    ELSE IF kind = "None" THEN Abort(k)
    ELSE Err(k, "unexpected token kind", toks[k].position)))

\* q is the index of the `rpc` token.
rpc_node(toks, q) ==
    Let(expect(toks, q + 1, "Identifier"), LAMBDA rn :
    IF rn.st # "ok" THEN rn ELSE
    Let(rpc_message_type(toks, rn.p), LAMBDA ri :
    IF ri.st # "ok" THEN ri ELSE
    Let(expect(toks, ri.p, "Keyword(Returns)"), LAMBDA rr :
    IF rr.st # "ok" THEN rr ELSE
    Let(rpc_message_type(toks, rr.p), LAMBDA rout :
    IF rout.st # "ok" THEN rout ELSE
    Let(peek_kind(toks, rout.p) = "LBrace", LAMBDA body :
    Let(IF body THEN method_elements(toks, after_peek(toks, rout.p) + 1, <<>>)
              ELSE Ok(rout.p, <<>>), LAMBDA rs :
    IF rs.st # "ok" THEN rs ELSE
    Let(expect(toks, rs.p, IF body THEN "RBrace" ELSE "SemiColon"), LAMBDA rend :
    IF rend.st # "ok" THEN rend
    ELSE Ok(rend.p, Node([type |-> "Method", name |-> rn.v.value,
                          input_type |-> ri.v, output_type |-> rout.v,
                          elements |-> rs.v],
                         toks[q].position, rend.v.position)))))))))

service_element(toks, q) ==
    Let(after_peek(toks, q), LAMBDA k :
    Let(peek_kind(toks, q), LAMBDA kind :
    IF kind = "Keyword(Option)" THEN
        Let(option_node(toks, q), LAMBDA r :
        IF r.st # "ok" THEN r
        ELSE Ok(r.p, Node([type |-> "Option", decl |-> r.v.value], r.v.start, r.v.end)))
    ELSE IF kind = "SemiColon" THEN
        Ok(k + 1, Node([type |-> "Empty"], toks[k].position, toks[k].position))
    ELSE IF kind = "Keyword(Rpc)" THEN rpc_node(toks, k)
    ELSE IF kind = "None" THEN Abort(k)
    ELSE Err(k, "unexpected token kind", toks[k].position)))

RECURSIVE service_elements(_, _, _)
service_elements(toks, q, elements) ==
    IF peek_kind(toks, q) = "RBrace" THEN Ok(after_peek(toks, q), elements)
    ELSE Let(service_element(toks, q), LAMBDA r :
         IF r.st # "ok" THEN r
         ELSE service_elements(toks, r.p, Append(elements, r.v)))

\* q is the index of the `service` token.  expect(LBrace) is unwrapped.
service_node(toks, q) ==
    Let(expect(toks, q + 1, "Identifier"), LAMBDA rn :
    IF rn.st # "ok" THEN rn ELSE
    Let(expect(toks, rn.p, "LBrace"), LAMBDA rl :
    IF rl.st # "ok" THEN Abort(rl.p) ELSE
    Let(service_elements(toks, rl.p, <<>>), LAMBDA rs :
    IF rs.st # "ok" THEN rs ELSE
    Let(expect(toks, rs.p, "RBrace"), LAMBDA rb :
    IF rb.st # "ok" THEN rb
    ELSE Ok(rb.p, Node([name |-> rn.v.value, elements |-> rs.v],
                       toks[q].position, rb.v.position))))))

\* self.tokens.peek() here follows an expect, not a peek_kind.
extension_elements(toks, q) ==
    IF q <= Len(toks)
    THEN Err(q, "extension elements are not supported yet", toks[q].position)
    ELSE Abort(q)

\* extend_node does not consume its keyword.
extend_node(toks, q) ==
    Let(qualified_identifier(toks, q), LAMBDA rn :
    IF rn.st # "ok" THEN rn ELSE
    Let(expect(toks, rn.p, "LBrace"), LAMBDA rl :
    IF rl.st # "ok" THEN rl ELSE
    Let(extension_elements(toks, rl.p), LAMBDA rs :
    IF rs.st # "ok" THEN rs ELSE
    Let(expect(toks, rs.p, "RBrace"), LAMBDA rb :
    IF rb.st # "ok" THEN rb
    ELSE Ok(rb.p, Node([extendee |-> rn.v.value, elements |-> rs.v],
                       rn.v.start, rb.v.position))))))

-----------------------------------------------------------------------------
(* Parser: message                                                         *)

RECURSIVE message_node(_, _), message_element(_, _), message_elements(_, _, _)

\* An element of kind `type` from the declaration node a production built.
Element(r, type) ==
    IF r.st # "ok" THEN r
    ELSE Ok(r.p, Node([type |-> type, decl |-> r.v.value], r.v.start, r.v.end))

message_element(toks, q) ==
    Let(after_peek(toks, q), LAMBDA k :
    Let(peek_kind(toks, q), LAMBDA kind :
    IF kind \in {"Keyword(Required)", "Keyword(Optional)", "Keyword(Repeated)",
                 "Dot", "Identifier"} \/ is_scalar(kind)
    THEN Element(field_decl(toks, q), "FieldDeclaration")
    ELSE IF kind = "Keyword(Enum)" THEN Element(enum_node(toks, k), "EnumDeclaration")
    ELSE IF kind = "Keyword(Message)" THEN Element(message_node(toks, k), "MessageDeclaration")
    ELSE IF kind = "Keyword(Oneof)" THEN Element(oneof_node(toks, q), "OneOfDeclaration")
    ELSE IF kind = "Keyword(Map)" THEN Element(map_field_decl(toks, q), "MapFieldDeclaration")
    ELSE IF kind = "Keyword(Extensions)" THEN Element(extend_node(toks, k), "ExtensionDeclaration")
    ELSE IF kind = "Keyword(Reserved)" THEN Element(reserved_node(toks, q), "ReservedDeclaration")
    ELSE IF kind = "Keyword(Option)" THEN Element(option_node(toks, q), "OptionDeclaration")
    ELSE Abort(k)))

message_elements(toks, q, elements) ==
    IF peek_kind(toks, q) \in {"RBrace", "None"} THEN Ok(after_peek(toks, q), elements)
    ELSE Let(message_element(toks, q), LAMBDA r :
         IF r.st # "ok" THEN r
         ELSE message_elements(toks, r.p, Append(elements, r.v)))

\* q is the index of the `message` token.
message_node(toks, q) ==
    Let(expect(toks, q + 1, "Identifier"), LAMBDA rn :
    IF rn.st # "ok" THEN rn ELSE
    Let(expect(toks, rn.p, "LBrace"), LAMBDA rl :
    IF rl.st # "ok" THEN rl ELSE
    Let(message_elements(toks, rl.p, <<>>), LAMBDA rs :
    IF rs.st # "ok" THEN rs ELSE
    Let(expect(toks, rs.p, "RBrace"), LAMBDA rb :
    IF rb.st # "ok" THEN rb
    ELSE Ok(rb.p, Node([name |-> rn.v.value, elements |-> rs.v],
                       toks[q].position, rb.v.position))))))

-----------------------------------------------------------------------------
(* Parser: top level                                                       *)

\* q is the index of the `syntax` token.
syntax_node(toks, q) ==
    Let(expect(toks, q + 1, "Equals"), LAMBDA re :
    IF re.st # "ok" THEN re ELSE
    Let(after_peek(toks, re.p), LAMBDA k :
    IF peek_kind(toks, re.p) # "String"
    THEN ErrAtPeek(toks, re.p, "Expected string after '='")
    ELSE IF Str(toks[k].value) \notin {"\"proto2\"", "\"proto3\""}
    THEN Err(k + 1, "Invalid syntax version", toks[k].position)
    ELSE
    Let(expect(toks, k + 1, "SemiColon"), LAMBDA rs :
    IF rs.st # "ok" THEN rs
    ELSE Ok(rs.p, Node([proto_type |-> IF Str(toks[k].value) = "\"proto2\""
                                       THEN "Proto2" ELSE "Proto3"],
                       toks[q].position, rs.v.position)))))

\* q is the index of the `package` token.  After the `;` one more token is
\* taken with advance().unwrap().
package_node(toks, q) ==
    Let(qualified_identifier(toks, q + 1), LAMBDA rn :
    IF rn.st # "ok" THEN rn ELSE
    Let(expect(toks, rn.p, "SemiColon"), LAMBDA rs :
    IF rs.st # "ok" THEN rs
    ELSE IF rs.p > Len(toks) THEN Abort(rs.p)
    ELSE Ok(rs.p + 1, Node([package_name |-> rn.v.value],
                           toks[q].position, rs.v.position))))

\* q is the index of the `import` token.
import_node(toks, q) ==
    Let(after_peek(toks, q + 1), LAMBDA k :
    Let(peek_kind(toks, q + 1), LAMBDA kind :
    Let(CASE kind = "Keyword(Public)" -> <<"Public">>
                      [] kind = "Keyword(Weak)" -> <<"Weak">>
                      [] OTHER -> <<>>, LAMBDA modifier :
    Let(parse_string(toks, IF modifier # <<>> THEN k + 1 ELSE k), LAMBDA rf :
    IF rf.st # "ok" THEN rf ELSE
    Let(expect(toks, rf.p, "SemiColon"), LAMBDA rs :
    IF rs.st # "ok" THEN rs
    ELSE Ok(rs.p, Node([modifier |-> modifier, package_name |-> rf.v.value],
                       toks[q].position, rs.v.position)))))))

\* A RootNode variant around the Node a production built.
RootNodeOf(r, type) ==
    IF r.st # "ok" THEN r ELSE Ok(r.p, [type |-> type, node |-> r.v])

root_node(toks, q) ==
    Let(after_peek(toks, q), LAMBDA k :
    Let(peek_kind(toks, q), LAMBDA kind :
    CASE kind = "Keyword(Syntax)" -> RootNodeOf(syntax_node(toks, k), "SyntaxDeclaration")
      [] kind = "Keyword(Package)" -> RootNodeOf(package_node(toks, k), "PackageDeclaration")
      [] kind = "Keyword(Import)" -> RootNodeOf(import_node(toks, k), "ImportDeclaration")
      [] kind = "Keyword(Option)" -> RootNodeOf(option_node(toks, k), "OptionDeclaration")
      [] kind = "Keyword(Message)" -> RootNodeOf(message_node(toks, k), "MessageDeclaration")
      [] kind = "Keyword(Enum)" -> RootNodeOf(enum_node(toks, k), "EnumDeclaration")
      [] kind = "Keyword(Service)" -> RootNodeOf(service_node(toks, k), "ServiceDeclaration")
      [] kind = "Keyword(Extend)" -> RootNodeOf(extend_node(toks, k), "ExtensionDeclaration")
      [] kind = "None" -> Ok(k, [type |-> "Empty", node |-> Node(<<>>, 0, 0)])
      [] OTHER -> Err(k + 1, "Unexpected token. Expected root node", toks[k].position)))

\* One iteration of the loop of Parser::parse from stream index q with the
\* Root and the errors collected so far.
ParseState(st, q, ns, es) == [st |-> st, p |-> q, nodes |-> ns, errors |-> es]

\* The iteration pulled the token on which the lazy token iterator aborts
\* (it is the last of the stream): it consumed it, or the next peek_kind,
\* at the head of the loop, reaches it.
pulled_abort(toks, q) ==
    /\ toks # <<>>
    /\ toks[Len(toks)].kind = "LexAbort"
    /\ after_peek(toks, q) >= Len(toks)

parse_iteration(toks, q, ns, es) ==
    Let(root_node(toks, q), LAMBDA r :
    Let(CASE r.st = "ok" -> ParseState("running", r.p, Append(ns, r.v), es)
          [] r.st = "err" -> ParseState("running", sync(toks, r.p), ns, Append(es, r.v))
          [] r.st = "panic" -> ParseState("aborted", r.p, ns, es),
        LAMBDA s :
    IF s.st = "running" /\ pulled_abort(toks, s.p)
    THEN ParseState("aborted", s.p, ns, es)
    ELSE s))

\* Parser::parse: the loop run to its end.
RECURSIVE parse_loop(_, _, _, _)
parse_loop(toks, q, ns, es) ==
    IF is_at_end(toks, q) THEN ParseState("returned", after_peek(toks, q), ns, es)
    ELSE Let(parse_iteration(toks, q, ns, es), LAMBDA s :
         IF s.st = "aborted" THEN s ELSE parse_loop(toks, s.p, s.nodes, s.errors))

parse(toks) == parse_loop(toks, 1, <<>>, <<>>)

-----------------------------------------------------------------------------
(* Texts: lexemes and their rendering                                      *)

W_syntax == <<"s","y","n","t","a","x">>
W_package == <<"p","a","c","k","a","g","e">>
W_import == <<"i","m","p","o","r","t">>
W_weak == <<"w","e","a","k">>
W_public == <<"p","u","b","l","i","c">>
W_option == <<"o","p","t","i","o","n">>
W_message == <<"m","e","s","s","a","g","e">>
W_enum == <<"e","n","u","m">>
W_service == <<"s","e","r","v","i","c","e">>
W_rpc == <<"r","p","c">>
W_returns == <<"r","e","t","u","r","n","s">>
W_stream == <<"s","t","r","e","a","m">>
W_int32 == <<"i","n","t","3","2">>
W_string == <<"s","t","r","i","n","g">>
W_bool == <<"b","o","o","l">>
W_bytes == <<"b","y","t","e","s">>
W_repeated == <<"r","e","p","e","a","t","e","d">>
W_optional == <<"o","p","t","i","o","n","a","l">>
W_required == <<"r","e","q","u","i","r","e","d">>
W_map == <<"m","a","p">>
W_oneof == <<"o","n","e","o","f">>
W_reserved == <<"r","e","s","e","r","v","e","d">>

N_a == <<"a">>
N_b == <<"b">>
N_c == <<"c">>
N_d == <<"d">>
N_e == <<"e">>
N_f == <<"f">>
N_g == <<"g">>
N_h == <<"h">>
N_i == <<"i">>
N_j == <<"j">>
N_Foo == <<"F","o","o">>
N_Bar == <<"B","a","r">>
N_Baz == <<"B","a","z">>
N_Test == <<"T","e","s","t">>
N_M == <<"M">>
N_N == <<"N">>
N_A == <<"A">>
N_x == <<"x">>
N_y == <<"y">>
N_Req == <<"R","e","q">>
N_true == <<"t","r","u","e">>

S_proto2 == <<"\"","p","r","o","t","o","2","\"">>
S_proto3 == <<"\"","p","r","o","t","o","3","\"">>
S_proto4 == <<"\"","p","r","o","t","o","4","\"">>
S_f == <<"\"","f","\"">>

\* The decimal digits of n
RECURSIVE Digits(_)
Digits(n) == IF n < 10 THEN <<ToString(n)>> ELSE Digits(n \div 10) \o <<ToString(n % 10)>>

\* The text of a lexeme sequence: the lexemes separated by sep
RECURSIVE Join(_, _)
Join(lexemes, sep) ==
    IF lexemes = <<>> THEN <<>>
    ELSE IF Len(lexemes) = 1 THEN lexemes[1]
    ELSE LET h == Len(lexemes) \div 2 IN
         Join(SubSeq(lexemes, 1, h), sep) \o sep
         \o Join(SubSeq(lexemes, h + 1, Len(lexemes)), sep)

RECURSIVE Flatten(_)
Flatten(seqs) == IF seqs = <<>> THEN <<>> ELSE seqs[1] \o Flatten(Tail(seqs))

\* The sequences over S of length lo..hi
SeqsOf(S, lo, hi) == UNION {[1..n -> S] : n \in lo..hi}

-----------------------------------------------------------------------------
(* Runs of the lexer and of the parser                                     *)

LexIdle == input = <<>> /\ cur = 0 /\ emitted = <<>> /\ lstatus = "idle"

ParseIdle ==
    /\ tokens = <<>> /\ p = 1 /\ nodes = <<>> /\ errors = <<>>
    /\ pstatus = "idle" /\ given = [family |-> "none"]

EmptyMap == [x \in {} |-> 0]

\* HashMap::entry(k).or_insert(v): an entry already under k is kept.
InsertIfAbsent(m, k, v) == [x \in DOMAIN m \cup {k} |-> IF x \in DOMAIN m THEN m[x] ELSE v]

\* HashMap::insert(k, v)
Insert(m, k, v) == [x \in DOMAIN m \cup {k} |-> IF x = k THEN v ELSE m[x]]

StoreIdle ==
    /\ trees = EmptyMap /\ completions = <<>> /\ messages = EmptyMap
    /\ latest = EmptyMap /\ ret = [call |-> "none"]

\* One call of next() on the iterator tokenize returns, while characters remain.
LexStep ==
    /\ lstatus = "running"
    /\ ~is_eof(input, cur)
    /\ LET r == advance_token(input, cur) IN
       IF r.panic
       THEN lstatus' = "aborted" /\ UNCHANGED <<cur, emitted>>
       ELSE cur' = r.n /\ emitted' = Append(emitted, r.tok) /\ UNCHANGED lstatus
    /\ UNCHANGED <<input, parseVars, storeVars>>

\* next() = None: the text is exhausted.
LexEnd ==
    /\ lstatus = "running"
    /\ is_eof(input, cur)
    /\ lstatus' = "done"
    /\ UNCHANGED <<input, cur, emitted, parseVars, storeVars>>

\* One iteration of `while !self.is_at_end()` in Parser::parse.
ParseIter ==
    /\ pstatus = "running"
    /\ ~is_at_end(tokens, p)
    /\ LET s == parse_iteration(tokens, p, nodes, errors) IN
       /\ p' = s.p
       /\ nodes' = s.nodes
       /\ errors' = s.errors
       /\ pstatus' = s.st
    /\ UNCHANGED <<tokens, given, lexVars, storeVars>>

\* The loop ends and parse returns ParseResult { root, errors }.
ParseReturn ==
    /\ pstatus = "running"
    /\ is_at_end(tokens, p)
    /\ p' = after_peek(tokens, p)
    /\ pstatus' = "returned"
    /\ UNCHANGED <<tokens, nodes, errors, given, lexVars, storeVars>>

-----------------------------------------------------------------------------
(* SpecLex: tokenize on every text over LexAlphabet of at most MaxLen      *)
(* characters                                                              *)

MaxLen == 3

LexAlphabet == {"a", "5", "0", "E", "+", ".", "\"", "/", "*", " ", "\n", "\r", ";"}

LexInit ==
    /\ input \in SeqsOf(LexAlphabet, 0, MaxLen)
    /\ cur = 0 /\ emitted = <<>> /\ lstatus = "running"
    /\ ParseIdle /\ StoreIdle

LexNext == LexStep \/ LexEnd

SpecLex == LexInit /\ [][LexNext]_vars

-----------------------------------------------------------------------------
(* SpecTokens: Parser::parse on the tokens of every sequence of at most    *)
(* MaxLexemes lexemes of Vocabulary                                        *)

MaxLexemes == 4

Vocabulary == {W_message, N_M, <<"{">>, <<"}">>, <<";">>, W_int32, <<"=">>, <<"1">>}

TokensInit ==
    /\ \E ls \in SeqsOf(Vocabulary, 0, MaxLexemes) :
          /\ given = [family |-> "lexemes", lexemes |-> ls]
          /\ \E text \in {Join(ls, <<" ">>)} : tokens = tokenize(text)
    /\ p = 1 /\ nodes = <<>> /\ errors = <<>> /\ pstatus = "running"
    /\ LexIdle /\ StoreIdle

ParseNext == ParseIter \/ ParseReturn

SpecTokens == TokensInit /\ [][ParseNext]_vars

-----------------------------------------------------------------------------
(* Descriptions of files, and the text each one stands for                 *)

\* Field types: the word written and the FieldType it denotes.
Scalar(word, variant) ==
    [word |-> word,
     value |-> [type |-> "ScalarType", scalar |-> variant,
                name |-> [absolute |-> FALSE, parts |-> <<>>]]]
Named(absolute, parts) ==
    [word |-> <<>>,
     value |-> [type |-> "TypeName", scalar |-> "-",
                name |-> [absolute |-> absolute, parts |-> parts]]]

T_int32 == Scalar(W_int32, "Int32")
T_string == Scalar(W_string, "String")
T_bool == Scalar(W_bool, "Bool")

RECURSIVE Dotted(_)
Dotted(parts) ==
    IF Len(parts) = 1 THEN parts ELSE <<parts[1], <<".">>>> \o Dotted(Tail(parts))

RenderType(t) ==
    IF t.value.type = "ScalarType" THEN <<t.word>>
    ELSE (IF t.value.name.absolute THEN <<<<".">>>> ELSE <<>>) \o Dotted(t.value.name.parts)

\* Body items of a message
Field(card, type, name, number) ==
    [kind |-> "field", card |-> card, type |-> type, name |-> name, number |-> number]
MapField(key, type, name, number) ==
    [kind |-> "map", key |-> key, type |-> type, name |-> name, number |-> number]
Oneof(name, fields) == [kind |-> "oneof", name |-> name, fields |-> fields]
Raw(lexemes) == [kind |-> "raw", lexemes |-> lexemes]

CardWord(card) ==
    CASE card = "Repeated" -> <<W_repeated>>
      [] card = "Optional" -> <<W_optional>>
      [] card = "Required" -> <<W_required>>
      [] OTHER -> <<>>

RenderField(f) ==
    CardWord(f.card) \o RenderType(f.type) \o <<f.name, <<"=">>, Digits(f.number), <<";">>>>

RECURSIVE RenderFields(_)
RenderFields(fs) ==
    IF fs = <<>> THEN <<>> ELSE RenderField(fs[1]) \o RenderFields(Tail(fs))

RenderItem(it) ==
    CASE it.kind = "field" -> RenderField(it)
      [] it.kind = "map" ->
            <<W_map, <<"<">>, it.key.word, <<",">>>> \o RenderType(it.type)
            \o <<<<">">>, it.name, <<"=">>, Digits(it.number), <<";">>>>
      [] it.kind = "oneof" ->
            <<W_oneof, it.name, <<"{">>>> \o RenderFields(it.fields) \o <<<<"}">>>>
      [] it.kind = "raw" -> it.lexemes

RECURSIVE RenderItems(_)
RenderItems(items) ==
    IF items = <<>> THEN <<>> ELSE RenderItem(items[1]) \o RenderItems(Tail(items))

\* Top-level declarations
SyntaxDecl(version) == [kind |-> "syntax", version |-> version]
PackageDecl(parts) == [kind |-> "package", parts |-> parts]
ImportDecl(modifier, file) == [kind |-> "import", modifier |-> modifier, file |-> file]
OptionDecl(name, value) == [kind |-> "option", name |-> name, value |-> value]
MessageDecl(name, body) == [kind |-> "message", name |-> name, body |-> body]
EnumDecl(name, values) == [kind |-> "enum", name |-> name, values |-> values]
ServiceDecl(name, rpcs) == [kind |-> "service", name |-> name, rpcs |-> rpcs]

RECURSIVE RenderEnumValues(_)
RenderEnumValues(vs) ==
    IF vs = <<>> THEN <<>>
    ELSE <<vs[1].name, <<"=">>>> \o (IF vs[1].negative THEN <<<<"-">>>> ELSE <<>>)
         \o <<Digits(vs[1].number), <<";">>>> \o RenderEnumValues(Tail(vs))

RECURSIVE RenderRpcs(_)
RenderRpcs(rs) ==
    IF rs = <<>> THEN <<>>
    ELSE <<W_rpc, rs[1].name, <<"(">>>> \o (IF rs[1].in_stream THEN <<W_stream>> ELSE <<>>)
         \o <<rs[1].input, <<")">>, W_returns, <<"(">>, rs[1].output, <<")">>>>
         \o (IF rs[1].body THEN <<<<"{">>, <<"}">>>> ELSE <<<<";">>>>)
         \o RenderRpcs(Tail(rs))

RenderDecl(d) ==
    CASE d.kind = "syntax" -> <<W_syntax, <<"=">>, d.version, <<";">>>>
      [] d.kind = "package" -> <<W_package>> \o Dotted(d.parts) \o <<<<";">>>>
      [] d.kind = "import" -> <<W_import>> \o d.modifier \o <<d.file, <<";">>>>
      [] d.kind = "option" -> <<W_option, d.name, <<"=">>>> \o d.value \o <<<<";">>>>
      [] d.kind = "message" ->
            <<W_message, d.name, <<"{">>>> \o RenderItems(d.body) \o <<<<"}">>>>
      [] d.kind = "enum" ->
            <<W_enum, d.name, <<"{">>>> \o RenderEnumValues(d.values) \o <<<<"}">>>>
      [] d.kind = "service" ->
            <<W_service, d.name, <<"{">>>> \o RenderRpcs(d.rpcs) \o <<<<"}">>>>
      [] d.kind = "raw" -> d.lexemes

RECURSIVE RenderDecls(_)
RenderDecls(ds) ==
    IF ds = <<>> THEN <<>> ELSE RenderDecl(ds[1]) \o RenderDecls(Tail(ds))

\* A file: its declarations and the separator written between lexemes
File(family, decls, sep) == [family |-> family, decls |-> decls, sep |-> sep]

Text(file) == Join(RenderDecls(file.decls), file.sep)

\* The offset of the first character of declaration i in the text
DeclOffset(file, i) ==
    IF i = 1 THEN 0
    ELSE Len(Join(RenderDecls(SubSeq(file.decls, 1, i - 1)), file.sep)) + Len(file.sep)

\* The RootNode variant a declaration is to become
Variant(d) ==
    CASE d.kind = "syntax" -> "SyntaxDeclaration"
      [] d.kind = "package" -> "PackageDeclaration"
      [] d.kind = "import" -> "ImportDeclaration"
      [] d.kind = "option" -> "OptionDeclaration"
      [] d.kind = "message" -> "MessageDeclaration"
      [] d.kind = "enum" -> "EnumDeclaration"
      [] d.kind = "service" -> "ServiceDeclaration"
      [] OTHER -> "none"

Seps == {<<" ">>, <<"\n">>}

-----------------------------------------------------------------------------
(* What a parsed message body says, and what its description says          *)

OneofFieldSummary(e) == [name |-> e.value.decl.name.value, number |-> e.value.decl.number.value]

ElementSummary(e) ==
    LET d == e.value.decl IN
    CASE e.value.type = "FieldDeclaration" ->
            [kind |-> "field", cardinality |-> d.cardinality.value,
             type |-> d.type_name.value, name |-> d.name.value, number |-> d.number.value]
      [] e.value.type = "MapFieldDeclaration" ->
            [kind |-> "map", key |-> d.key_type.value, type |-> d.value_type.value,
             name |-> d.name.value, number |-> d.number.value]
      [] e.value.type = "OneOfDeclaration" ->
            [kind |-> "oneof", name |-> d.name.value,
             fields |-> [i \in 1..Len(d.elements) |-> OneofFieldSummary(d.elements[i])]]
      [] OTHER -> [kind |-> e.value.type]

ItemSummary(it) ==
    CASE it.kind = "field" ->
            [kind |-> "field", cardinality |-> IF it.card = "" THEN "Optional" ELSE it.card,
             type |-> it.type.value, name |-> it.name, number |-> it.number]
      [] it.kind = "map" ->
            [kind |-> "map", key |-> it.key.value.scalar, type |-> it.type.value,
             name |-> it.name, number |-> it.number]
      [] it.kind = "oneof" ->
            [kind |-> "oneof", name |-> it.name,
             fields |-> [i \in 1..Len(it.fields) |->
                            [name |-> it.fields[i].name, number |-> it.fields[i].number]]]
      [] OTHER -> [kind |-> "raw"]

BodySummary(elements) == [i \in 1..Len(elements) |-> ElementSummary(elements[i])]
ItemsSummary(items) == [i \in 1..Len(items) |-> ItemSummary(items[i])]

\* The well-formed items of a body, in order
RECURSIVE WellFormed(_)
WellFormed(items) ==
    IF items = <<>> THEN <<>>
    ELSE (IF items[1].kind = "raw" THEN <<>> ELSE <<items[1]>>) \o WellFormed(Tail(items))

RawCount(items) == Cardinality({i \in 1..Len(items) : items[i].kind = "raw"})
RawIndex(items) == CHOOSE i \in 1..Len(items) : items[i].kind = "raw"

-----------------------------------------------------------------------------
(* SpecFiles: parse on the texts of four families of files                 *)

MaxItems == 3
MaxDecls == 3

I_a == Field("", T_int32, N_a, 1)
I_b == Field("", T_string, N_b, 2)
I_c == Oneof(N_c, <<Field("", T_int32, N_d, 4)>>)
I_e == Field("", Named(FALSE, <<N_Test>>), N_e, 5)
I_f == Field("Repeated", T_int32, N_f, 6)
I_g == MapField(T_string, T_int32, N_g, 7)
I_h == Oneof(N_h, <<Field("", T_int32, N_i, 8), Field("", Named(FALSE, <<N_Test>>), N_j, 9)>>)
I_y == Field("Required", Named(TRUE, <<N_a, N_Test>>), N_y, 10)

Items == {I_a, I_b, I_c, I_e, I_f, I_g, I_h, I_y}

\* syntax = "proto3"; message Test { items }
SyntaxMessageFiles ==
    {File("syntax_message", <<SyntaxDecl(S_proto3), MessageDecl(N_Test, body)>>, sep) :
        body \in SeqsOf(Items, 1, MaxItems), sep \in Seps}

\* One declaration of each of the seven kinds
EV(name, number, negative) == [name |-> name, number |-> number, negative |-> negative]
Rpc(name, request, response, in_stream, body) ==
    [name |-> name, input |-> request, output |-> response, in_stream |-> in_stream, body |-> body]

SingleDecls ==
    {SyntaxDecl(S_proto2), SyntaxDecl(S_proto3),
     PackageDecl(<<N_a>>), PackageDecl(<<N_a, N_b>>),
     ImportDecl(<<>>, S_f), ImportDecl(<<W_public>>, S_f), ImportDecl(<<W_weak>>, S_f),
     OptionDecl(N_x, <<N_true>>), OptionDecl(N_x, <<<<"5">>>>), OptionDecl(N_x, <<S_f>>),
     MessageDecl(N_Foo, <<>>), MessageDecl(N_Foo, <<I_a>>), MessageDecl(N_Foo, <<I_a, I_g>>),
     EnumDecl(N_Bar, <<>>), EnumDecl(N_Bar, <<EV(N_A, 0, FALSE)>>),
     EnumDecl(N_Bar, <<EV(N_A, 0, FALSE), EV(N_b, 1, TRUE)>>),
     ServiceDecl(N_Foo, <<>>), ServiceDecl(N_Foo, <<Rpc(N_a, N_Req, N_Req, FALSE, FALSE)>>),
     ServiceDecl(N_Foo, <<Rpc(N_a, N_Req, N_Req, TRUE, TRUE)>>)}

SingleFiles == {File("single", <<d>>, sep) : d \in SingleDecls, sep \in Seps}

\* message M { items }, exactly one of the items a malformed field
BadFields ==
    {Raw(<<W_int32, <<"=">>, <<"1">>, <<";">>>>),
     Raw(<<W_int32, N_a, <<"1">>, <<";">>>>),
     Raw(<<W_int32, N_a, <<"=">>, <<";">>>>),
     Raw(<<W_int32, N_a, <<"=">>, <<"1">>>>)}

BadFieldFiles ==
    {File("bad_field", <<MessageDecl(N_M, body)>>, sep) :
        body \in {b \in SeqsOf({I_a, I_f, I_g} \cup BadFields, 1, MaxItems) : RawCount(b) = 1},
        sep \in Seps}

\* Top-level declarations, exactly one of them malformed
GoodDecls ==
    {SyntaxDecl(S_proto3), ImportDecl(<<>>, S_f), MessageDecl(N_M, <<>>),
     MessageDecl(N_N, <<I_a>>)}

BadDecls ==
    {Raw(<<W_syntax, <<"=">>, S_proto3>>),
     Raw(<<W_syntax, S_proto3, <<";">>>>),
     Raw(<<W_import, <<";">>>>),
     Raw(<<W_message, N_M, <<"{">>, W_int32, <<"=">>, <<"1">>, <<";">>, <<"}">>>>)}

BadDeclFiles ==
    {File("bad_decl", ds, sep) :
        ds \in {d \in SeqsOf(GoodDecls \cup BadDecls, 2, MaxDecls) : RawCount(d) = 1},
        sep \in Seps}

Files == SingleFiles \cup SyntaxMessageFiles \cup BadFieldFiles \cup BadDeclFiles

FilesInit ==
    /\ given \in Files
    /\ \E text \in {Text(given)} : tokens = tokenize(text)
    /\ p = 1 /\ nodes = <<>> /\ errors = <<>> /\ pstatus = "running"
    /\ LexIdle /\ StoreIdle

SpecFiles == FilesInit /\ [][ParseNext]_vars

-----------------------------------------------------------------------------
(* The document store: Source                                              *)

\* ParseResult { root: Root { nodes, file_name }, errors } of a returned parse
ParseResult(file_name, tree) ==
    [root |-> [nodes |-> tree.nodes, file_name |-> file_name], errors |-> tree.errors]

\* HashMap::values(): the stored roots in the map's iteration order
Orders(S) == {f \in [1..Cardinality(S) -> S] : \A i, j \in 1..Cardinality(S) : f[i] = f[j] => i = j}
values(map, order) == [i \in 1..Len(order) |-> map[order[i]].root]

Range(f) == {f[x] : x \in DOMAIN f}

\* get_suggestions: the names of the message and enum nodes of each root
RECURSIVE suggestions_of(_)
suggestions_of(root_nodes) ==
    IF root_nodes = <<>> THEN <<>>
    ELSE (IF root_nodes[1].type \in {"MessageDeclaration", "EnumDeclaration"}
          THEN <<root_nodes[1].node.value.name>> ELSE <<>>)
         \o suggestions_of(Tail(root_nodes))

RECURSIVE get_suggestions(_)
get_suggestions(roots) ==
    IF roots = <<>> THEN <<>>
    ELSE suggestions_of(roots[1].nodes) \o get_suggestions(Tail(roots))

\* get_messages: a ProtoMessage for each message node of each root
RECURSIVE messages_of(_, _)
messages_of(root_nodes, file_name) ==
    IF root_nodes = <<>> THEN <<>>
    ELSE (IF root_nodes[1].type = "MessageDeclaration"
          THEN <<[node |-> root_nodes[1].node, file |-> file_name]>> ELSE <<>>)
         \o messages_of(Tail(root_nodes), file_name)

RECURSIVE get_messages(_)
get_messages(files) ==
    IF files = <<>> THEN <<>>
    ELSE messages_of(files[1].nodes, files[1].file_name) \o get_messages(Tail(files))

\* .map(|message| (name, start)).collect::<HashMap>(): a later pair
\* replaces an earlier one of the same name.
RECURSIVE collect(_, _)
collect(protos, map) ==
    IF protos = <<>> THEN map
    ELSE collect(Tail(protos), Insert(map, protos[1].node.value.name, protos[1].node.start))

\* Source::parse once the parser has returned `tree`: the store after it
Source_parse(self, name, tree, order) ==
    LET trees1 == Insert(self.trees, name, ParseResult(name, tree)) IN
    [trees |-> trees1,
     completions |-> get_suggestions(values(trees1, order)),
     messages |-> collect(get_messages(values(trees1, order)), EmptyMap)]

\* A completions that skips the `column` first entries of the list.
Source_completions_from(self, line, column) ==
    SubSeq(self.completions, column + 1, Len(self.completions))

\* Source::completions
Source_completions(self, line, column) ==
    [i \in 1..Len(self.completions) |-> self.completions[i]]

\* Source::goto_definition: None is <<>>, Some(position) is <<position>>
Source_goto_definition(self, name) ==
    IF name \in DOMAIN self.messages THEN <<self.messages[name]>> ELSE <<>>

Self == [trees |-> trees, completions |-> completions, messages |-> messages]

-----------------------------------------------------------------------------
(* Spec: calls on one Source                                               *)

MaxLine == 1

Paths == {"a.proto", "b.proto"}

F_Foo == File("store", <<MessageDecl(N_Foo, <<>>)>>, <<" ">>)
F_Bar == File("store", <<EnumDecl(N_Bar, <<EV(N_A, 0, FALSE)>>)>>, <<" ">>)
F_PackageBaz == File("store", <<PackageDecl(<<N_a>>), MessageDecl(N_Baz, <<>>)>>, <<" ">>)
F_SyntaxFoo == File("store", <<SyntaxDecl(S_proto3), MessageDecl(N_Foo, <<>>)>>, <<"\n">>)
F_FooBaz == File("store", <<MessageDecl(N_Foo, <<>>), MessageDecl(N_Baz, <<I_a>>)>>, <<" ">>)
F_Open == File("store", <<Raw(<<W_message, N_Baz, <<"{">>>>)>>, <<" ">>)

StoreFiles == {F_Foo, F_Bar, F_PackageBaz, F_SyntaxFoo, F_FooBaz, F_Open}

Names == {N_Foo, N_Bar, N_Baz, N_M}

\* Source::parse(name, text of file).  An abort of the lexer or of the parser
\* happens before the first write to the store.
SourceParse(name, file) ==
    /\ \E text \in {Text(file)} : \E toks \in {tokenize(text)} : \E tree \in {parse(toks)} :
          IF tree.st = "aborted"
          THEN /\ ret' = [call |-> "parse", path |-> name, st |-> "aborted", superseded |-> <<>>]
               /\ UNCHANGED <<trees, completions, messages, latest>>
          ELSE /\ \E order \in Orders(DOMAIN trees \cup {name}) :
                     \E self1 \in {Source_parse(Self, name, tree, order)} :
                        /\ trees' = self1.trees
                        /\ completions' = self1.completions
                        /\ messages' = self1.messages
               /\ latest' = [x \in DOMAIN latest \cup {name} |->
                                IF x = name THEN file ELSE latest[x]]
               /\ ret' = [call |-> "parse", path |-> name, st |-> "returned",
                          superseded |-> IF name \in DOMAIN latest
                                         THEN <<latest[name]>> ELSE <<>>]
    /\ UNCHANGED <<lexVars, parseVars>>

Completions(line, column) ==
    /\ ret' = [call |-> "completions", line |-> line, column |-> column,
               value |-> Source_completions(Self, line, column)]
    /\ UNCHANGED <<trees, completions, messages, latest, lexVars, parseVars>>

GotoDefinition(name) ==
    /\ ret' = [call |-> "goto_definition", name |-> name,
               value |-> Source_goto_definition(Self, name)]
    /\ UNCHANGED <<trees, completions, messages, latest, lexVars, parseVars>>

Init == LexIdle /\ ParseIdle /\ StoreIdle

Next ==
    \/ \E name \in Paths, file \in StoreFiles : SourceParse(name, file)
    \/ \E line \in 0..MaxLine, column \in 0..MaxLine : Completions(line, column)
    \/ \E name \in Names : GotoDefinition(name)

Spec == Init /\ [][Next]_vars

-----------------------------------------------------------------------------
(* Properties of the lexer and of the parser                               *)

\* C1: for every finite token sequence Parser::parse returns a ParseResult
\* without aborting: a violated expectation is recorded as a ParseError and
\* followed by sync, never fatal.
C1_ParseNeverAborts == pstatus # "aborted"

\* C2: for every input text tokenize terminates without aborting: the run
\* of the iterator never stops on an abort, malformed input becomes Unknown
\* tokens.
C2_TokenizeNeverAborts == lstatus # "aborted"

\* C3: a file of one message whose body is well-formed except for exactly one
\* malformed field parses to exactly one ParseError and a Root holding the
\* message node with every well-formed sibling element of the body.
C3_OneMalformedField ==
    given.family = "bad_field" /\ pstatus = "returned" =>
        /\ Len(errors) = 1
        /\ Len(nodes) = 1
        /\ nodes[1].type = "MessageDeclaration"
        /\ BodySummary(nodes[1].node.value.elements)
              = ItemsSummary(WellFormed(given.decls[1].body))

\* C4: when all top-level declarations but one are well-formed, every
\* well-formed declaration after the malformed one is in Root.nodes, in
\* source order: the last nodes of the Root are those declarations.
C4_FollowingDeclarationsKept ==
    given.family = "bad_decl" /\ pstatus = "returned" =>
        LET k == RawIndex(given.decls)
            m == Len(given.decls) - k
            base == Len(nodes) - m
        IN /\ base >= 0
           /\ \A j \in 1..m :
                 /\ nodes[base + j].type = Variant(given.decls[k + j])
                 /\ nodes[base + j].node.start = DeclOffset(given, k + j)

\* C5: an input that is exactly one valid top-level declaration parses to
\* zero errors and a Root of exactly one node, of the variant of the
\* declaration, whose span starts at the first character of the input and
\* reaches its last one.
C5_SingleDeclaration ==
    given.family = "single" =>
        /\ pstatus # "aborted"
        /\ pstatus = "returned" =>
              /\ errors = <<>>
              /\ Len(nodes) = 1
              /\ nodes[1].type = Variant(given.decls[1])
              /\ nodes[1].node.start = 0
              /\ nodes[1].node.end >= Len(Text(given)) - 1

\* C6: a syntax statement followed by one message whose body mixes scalar
\* fields, type-named fields, repeated fields, map fields and oneofs parses
\* with zero errors to a Root of exactly two nodes (syntax, message); the
\* message holds one element per body item, in source order, each with its
\* cardinality (Optional when no keyword is written), type, name and number,
\* and each oneof holds one field per declared field with its name and
\* number.
C6_SyntaxAndMessage ==
    given.family = "syntax_message" =>
        /\ pstatus # "aborted"
        /\ pstatus = "returned" =>
              /\ errors = <<>>
              /\ Len(nodes) = 2
              /\ nodes[1].type = "SyntaxDeclaration"
              /\ nodes[2].type = "MessageDeclaration"
              /\ nodes[2].node.value.name = given.decls[2].name
              /\ BodySummary(nodes[2].node.value.elements)
                    = ItemsSummary(given.decls[2].body)

\* A message of three items, among them a oneof, a map field and a field
\* without cardinality keyword, has been parsed.
C6_Parsed ==
    /\ given.family = "syntax_message"
    /\ pstatus = "returned"
    /\ given.decls[2].body = <<I_a, I_g, I_h>>
    /\ Len(nodes) = 2
    /\ Len(nodes[2].node.value.elements) = 3

-----------------------------------------------------------------------------
(* Properties of the document store                                        *)

\* The names a file declares at top level with declarations of `kinds`
Declared(file, kinds) ==
    {file.decls[i].name : i \in {j \in 1..Len(file.decls) : file.decls[j].kind \in kinds}}

MessageIndex(file, name) ==
    CHOOSE i \in 1..Len(file.decls) :
        file.decls[i].kind = "message" /\ file.decls[i].name = name

\* C7: after any sequence of Source::parse calls the store holds exactly one
\* result per path given, the result of parsing the latest text given for
\* that path; the completion list and the definition index are computed from
\* those results alone, so a name declared only in a superseded text is in
\* neither.
C7_LatestResults ==
    /\ DOMAIN trees = DOMAIN latest
    /\ \A path \in DOMAIN trees :
          \E text \in {Text(latest[path])} : \E toks \in {tokenize(text)} :
             \E tree \in {parse(toks)} :
                tree.st = "returned" /\ trees[path] = ParseResult(path, tree)
    /\ \E order \in Orders(DOMAIN trees) :
          /\ completions = get_suggestions(values(trees, order))
          /\ messages = collect(get_messages(values(trees, order)), EmptyMap)
    /\ \A name \in Range(completions) \cup DOMAIN messages :
          \E path \in DOMAIN latest : name \in Declared(latest[path], {"message", "enum"})

\* The text of a path that declared Foo and Baz has been replaced by one that
\* declares only Foo, both paths are stored, and Baz is in neither index.
C7_Superseded ==
    /\ ret.call = "parse" /\ ret.st = "returned"
    /\ ret.superseded = <<F_FooBaz>>
    /\ latest[ret.path] = F_Foo
    /\ DOMAIN trees = Paths
    /\ N_Foo \in Range(completions)
    /\ N_Baz \notin Range(completions) \cup DOMAIN messages

\* C8: whatever files were parsed, in whatever order, the set of names that
\* completions returns is the set of all top-level message names and
\* top-level enum names declared in the stored files.
C8_CompletionNames ==
    Range(completions)
        = UNION {Declared(latest[path], {"message", "enum"}) : path \in DOMAIN latest}

\* C9: goto_definition(N) returns the start position of the declaration
\* `message N` of the stored file that declares it (when one file does), and
\* nothing for a name that no stored file declares.
C9_GotoDefinition ==
    ret.call = "goto_definition" =>
        LET holders == {path \in DOMAIN latest :
                            ret.name \in Declared(latest[path], {"message"})}
        IN /\ holders = {} => ret.value = <<>>
           /\ \A path \in holders :
                 holders = {path} =>
                    ret.value = <<DeclOffset(latest[path],
                                             MessageIndex(latest[path], ret.name))>>

\* C10: in every store state completions returns the same list for every
\* (line, column), the precomputed one, and a call of it leaves the store as
\* it was.
C10_CompletionsIgnoresPosition ==
    /\ [](\A l1, c1, l2, c2 \in 0..MaxLine :
             Source_completions(Self, l1, c1) = Source_completions(Self, l2, c2))
    /\ [][ret'.call = "completions" =>
             /\ ret'.value = completions
             /\ UNCHANGED <<trees, completions, messages>>]_vars

\* completions has been called away from the origin on a store of two names.
C10_Called ==
    /\ ret.call = "completions"
    /\ ret.line = 0 /\ ret.column = MaxLine
    /\ Len(ret.value) >= 2
    /\ ret.value = completions

-----------------------------------------------------------------------------
(* SpecTwice: the same text tokenized and parsed twice                     *)

\* Parser::new: a Parser over the token stream, with an empty error list.
Parser_new_keeping(toks) == [tokens |-> toks, p |-> 1, errors |-> errors]

Parser_new(toks) == [tokens |-> toks, p |-> 1, errors |-> <<>>]

FileName == "a.proto"

\* import "f      (the string is not closed: tokenize aborts)
F_Unclosed == File("store", <<Raw(<<W_import, <<"\"", "f">>>>)>>, <<" ">>)

TwiceFiles == StoreFiles \cup {F_Unclosed} \cup {f \in BadDeclFiles : Len(f.decls) = 2}

TwiceInit ==
    /\ given \in TwiceFiles
    /\ input = Text(given)
    /\ cur = 0 /\ emitted = <<>> /\ lstatus = "running"
    /\ tokens = <<>> /\ p = 1 /\ nodes = <<>> /\ errors = <<>> /\ pstatus = "idle"
    /\ StoreIdle

\* Parser::new(tokens) and Root::new(file_name), once tokenize is exhausted.
ParseStart ==
    /\ lstatus = "done"
    /\ pstatus = "idle"
    /\ \E parser \in {Parser_new(emitted)} :
          /\ tokens' = parser.tokens
          /\ p' = parser.p
          /\ errors' = parser.errors
    /\ nodes' = <<>>
    /\ pstatus' = "running"
    /\ UNCHANGED <<given, lexVars, storeVars>>

\* The first run has returned: its tokens and its ParseResult are kept, and
\* the same text is given to a new Cursor.
Again ==
    /\ pstatus = "returned"
    /\ ret.call = "none"
    /\ ret' = [call |-> "first", tokens |-> tokens,
               result |-> ParseResult(FileName, [nodes |-> nodes, errors |-> errors])]
    /\ cur' = 0 /\ emitted' = <<>> /\ lstatus' = "running"
    /\ pstatus' = "idle"
    /\ UNCHANGED <<input, tokens, p, nodes, errors, given,
                   trees, completions, messages, latest>>

TwiceNext == LexStep \/ LexEnd \/ ParseStart \/ ParseIter \/ ParseReturn \/ Again

SpecTwice == TwiceInit /\ [][TwiceNext]_vars

-----------------------------------------------------------------------------
(* Properties of the tokens                                                *)

\* The offsets of the text that token t claims to hold
Covers(t) == t.position .. (t.position + Len(t.value) - 1)

\* Token t holds the text at its position, and starts at or after the end of
\* the token before it (prev is <<>> for the first token).
SourceSlice(t, prev) ==
    /\ Len(t.value) >= 1
    /\ t.position + Len(t.value) <= Len(input)
    /\ t.value = SubSeq(input, t.position + 1, t.position + Len(t.value))
    /\ \A q \in Range(prev) : q.position < t.position
                              /\ q.position + Len(q.value) <= t.position

Before(i) == IF i = 1 THEN <<>> ELSE <<emitted[i - 1]>>

\* Every consumed character outside every token is whitespace other than a
\* line end.
OnlyBlanksSkipped(toks) ==
    \A k \in 0..(cur - 1) :
        (\A i \in 1..Len(toks) : k \notin Covers(toks[i]))
            => is_whitespace(input[k + 1]) /\ input[k + 1] \notin {"\n", "\r"}

-----------------------------------------------------------------------------
(* SpecNumeric: tokenize on every text over NumAlphabet of at most         *)
(* MaxNumLen characters                                                    *)

MaxNumLen == 4

NumAlphabet == {"0", "7", "9", "x", "X", "e", "E", ".", "+", "-", "a"}

NumericInit ==
    /\ input \in SeqsOf(NumAlphabet, 1, MaxNumLen)
    /\ cur = 0 /\ emitted = <<>> /\ lstatus = "running"
    /\ ParseIdle /\ StoreIdle

SpecNumeric == NumericInit /\ [][LexNext]_vars

\* The run has ended with the whole text as one token of the kind.
OneToken(kind) == lstatus = "done" /\ emitted = <<Token(input, kind, 0)>>

AllIn(v, from, S) == \A k \in from..Len(v) : v[k] \in S

HexForm(v) == Len(v) >= 3 /\ v[1] = "0" /\ v[2] \in {"x", "X"} /\ AllIn(v, 3, HexDigits)
OctalForm(v) == v[1] = "0" /\ AllIn(v, 2, OctDigits)
DecimalForm(v) == v[1] # "0" /\ AllIn(v, 1, DecDigits)
BadOctalForm(v) == v[1] = "0" /\ AllIn(v, 2, DecDigits) /\ ~AllIn(v, 2, OctDigits)

\* C13: `0x` or `0X` followed by one or more hex digits, a bare `0`, `0`
\* followed by octal digits only, and a run of decimal digits without
\* leading `0` each lex as one IntLiteral token; `0` followed by digits of
\* which one is not octal lexes as one Unknown token.
C13_IntegerClassification ==
    lstatus # "running" =>
        /\ HexForm(input) \/ OctalForm(input) \/ DecimalForm(input) => OneToken("IntLiteral")
        /\ BadOctalForm(input) => OneToken("Unknown")

\* The text is one numeric run: it starts as a numeric literal does, and
\* every character of NumAlphabet continues the run.
NumericRun(v) == v[1] \in DecDigits \/ (v[1] = "." /\ Len(v) >= 2 /\ v[2] \in DecDigits)

Count(v, S) == Cardinality({k \in 1..Len(v) : v[k] \in S})

\* The exponent marker at k is followed by an optional sign and a digit.
ExponentAt(v, k) ==
    \/ k + 1 <= Len(v) /\ v[k + 1] \in DecDigits
    \/ k + 2 <= Len(v) /\ v[k + 1] \in {"+", "-"} /\ v[k + 2] \in DecDigits

FloatRules(v) ==
    /\ Count(v, {"."}) <= 1
    /\ v[1] = "." => (Len(v) >= 2 /\ v[2] \in DecDigits)
    /\ Count(v, {"e", "E"}) <= 1
    /\ \A k \in 1..Len(v) : v[k] \in {"e", "E"} => ExponentAt(v, k)

\* C14: a numeric run that holds `.`, `e` or `E` lexes as one FloatLiteral
\* token when it has at most one decimal point, a leading point is followed
\* by a digit, it has at most one exponent marker and that marker is followed
\* by an optional sign and a digit; otherwise it lexes as one Unknown token.
C14_FloatValidation ==
    lstatus # "running" /\ NumericRun(input) /\ Count(input, {".", "e", "E"}) >= 1 =>
        IF FloatRules(input) THEN OneToken("FloatLiteral") ELSE OneToken("Unknown")

-----------------------------------------------------------------------------
(* SpecWords: tokenize on words around the keywords                        *)

W_inf == <<"i","n","f">>
W_float == <<"f","l","o","a","t">>
W_double == <<"d","o","u","b","l","e">>
W_int64 == <<"i","n","t","6","4">>
W_uint32 == <<"u","i","n","t","3","2">>
W_uint64 == <<"u","i","n","t","6","4">>
W_sint32 == <<"s","i","n","t","3","2">>
W_sint64 == <<"s","i","n","t","6","4">>
W_fixed32 == <<"f","i","x","e","d","3","2">>
W_fixed64 == <<"f","i","x","e","d","6","4">>
W_sfixed32 == <<"s","f","i","x","e","d","3","2">>
W_sfixed64 == <<"s","f","i","x","e","d","6","4">>
W_group == <<"g","r","o","u","p">>
W_extensions == <<"e","x","t","e","n","s","i","o","n","s">>
W_to == <<"t","o">>
W_max == <<"m","a","x">>
W_extend == <<"e","x","t","e","n","d">>

\* The words of the keyword table
KeywordWords ==
    {W_syntax, W_package, W_import, W_weak, W_public, W_option,
     W_message, W_enum, W_service, W_rpc, W_returns, W_stream,
     W_int32, W_string, W_bool, W_bytes, W_repeated, W_optional,
     W_required, W_map, W_oneof, W_reserved, W_inf, W_float,
     W_double, W_int64, W_uint32, W_uint64, W_sint32, W_sint64,
     W_fixed32, W_fixed64, W_sfixed32, W_sfixed64, W_group, W_extensions,
     W_to, W_max, W_extend}

\* Words that are no keyword (`To` and `Map` differ from one in case only)
PlainWords == {N_a, N_Test, <<"T", "o">>, <<"M", "a", "p">>}

MaxSuffix == 1

Prefixes == {<<>>, <<"_">>, <<"x">>}
Suffixes == SeqsOf({"s", "_", "1", "r"}, 0, MaxSuffix)
Tails == {<<>>, <<" ">>, <<";">>, <<" ", "t", "o">>, <<".", "5">>}

WordsInit ==
    /\ input \in {pre \o w \o suf \o tail :
                    pre \in Prefixes, w \in KeywordWords \cup PlainWords,
                    suf \in Suffixes, tail \in Tails}
    /\ cur = 0 /\ emitted = <<>> /\ lstatus = "running"
    /\ ParseIdle /\ StoreIdle

SpecWords == WordsInit /\ [][LexNext]_vars

IdentChar(c) == c \in Lower \cup Upper \cup DecDigits \cup {"_"}

\* The end of the maximal run of letters, digits and `_` that starts at
\* offset from
RunEnd(from) ==
    CHOOSE e \in (from + 1)..Len(input) :
        /\ \A k \in (from + 1)..e : IdentChar(input[k])
        /\ e = Len(input) \/ ~IdentChar(input[e + 1])

\* C16: a lexer step at a letter or `_` emits the maximal run of letters,
\* digits and `_` as one token: the Keyword token of the table when the
\* whole run is one of the 39 words of the keyword table, an Identifier
\* otherwise; a run that only starts with a keyword is not split.
C16_WholeRunKeywords ==
    /\ [](Cardinality(KeywordWords) = 39 /\ {Str(w) : w \in KeywordWords} = DOMAIN KEYWORD)
    /\ [][lstatus = "running" /\ cur < Len(input)
          /\ input[cur + 1] \in Lower \cup Upper \cup {"_"} =>
            LET run == SubSeq(input, cur + 1, RunEnd(cur)) IN
            /\ cur' = RunEnd(cur)
            /\ emitted' = Append(emitted,
                   Token(run, IF run \in KeywordWords THEN KEYWORD[Str(run)] ELSE "Identifier",
                         cur))]_vars

\* `maps to` has been tokenized: an Identifier that starts with a keyword,
\* then a keyword.
C16_PrefixNotSplit ==
    /\ lstatus = "done"
    /\ emitted = <<Token(W_map \o <<"s">>, "Identifier", 0), Token(W_to, "Keyword(To)", 5)>>

-----------------------------------------------------------------------------
(* SpecSpans: parse on single declarations, on options with signed values  *)
(* and on fields with named types                                          *)

MaxParts == 2

\* option x = [sign] [gap] literal ;     (gap: the separator is written
\* between the sign and the literal)
SignedOption(sign, gap, literal) ==
    [kind |-> "option", name |-> N_x,
     value |-> IF sign = <<>> THEN <<literal>>
               ELSE IF gap THEN <<sign, literal>> ELSE <<sign \o literal>>,
     sign |-> sign, gap |-> gap, literal |-> literal]

SignedOptionFiles ==
    {File("signed_option", <<SignedOption(sign, gap, literal)>>, sep) :
        sign \in {<<"-">>, <<"+">>}, gap \in BOOLEAN,
        literal \in {<<"5">>, <<"5", "0">>, <<"1", ".", "5">>}, sep \in Seps}

\* message M { type y = 10 ; }     (compact: the type name is written
\* without separators, as in `.a.Test`)
TypedField(type, compact) ==
    [kind |-> "raw", type |-> type, compact |-> compact,
     lexemes |-> (IF compact THEN <<Flatten(RenderType(type))>> ELSE RenderType(type))
                 \o <<N_y, <<"=">>, Digits(10), <<";">>>>]

TypedFieldFiles ==
    {File("typed_field", <<MessageDecl(N_M, <<TypedField(Named(absolute, parts), compact)>>)>>, sep) :
        absolute \in BOOLEAN, parts \in SeqsOf({N_a, N_Test}, 1, MaxParts),
        compact \in BOOLEAN, sep \in Seps}

SpanFiles == SingleFiles \cup SignedOptionFiles \cup TypedFieldFiles

SpansInit ==
    /\ given \in SpanFiles
    /\ \E text \in {Text(given)} : tokens = tokenize(text)
    /\ p = 1 /\ nodes = <<>> /\ errors = <<>> /\ pstatus = "running"
    /\ LexIdle /\ StoreIdle

SpecSpans == SpansInit /\ [][ParseNext]_vars

\* What the text says of a span: the offset of the first token consumed for
\* it, the offset of the last one, and the offset after the last one.
Span(b, l, e) == [first |-> b, last |-> l, after |-> e]

\* The offset after the lexemes written in front of a span
After(lexemes, sep) == Len(Join(lexemes, sep)) + Len(sep)

\* The declaration of a file of one declaration
DeclSpan(file) == Span(0, Len(Text(file)) - 1, Len(Text(file)))

\* The value of the option of a signed_option file
ValueSpan(file) ==
    LET d == file.decls[1]
        b == After(<<W_option, d.name, <<"=">>>>, file.sep)
        l == b + Len(d.sign) + (IF d.gap THEN Len(file.sep) ELSE 0)
    IN Span(b, l, l + Len(d.literal))

\* The type name of the field of a typed_field file
TypeSpan(file) ==
    LET f == file.decls[1].body[1]
        parts == f.type.value.name.parts
        b == After(<<W_message, N_M, <<"{">>>>, file.sep)
        e == b + Len(Join(SubSeq(f.lexemes, 1, Len(f.lexemes) - 4), file.sep))
    IN Span(b, e - Len(parts[Len(parts)]), e)

\* The span of a node, with what the text says of it
Seen(node, span) == [start |-> node.start, end |-> node.end, span |-> span]

\* The nodes looked at
Spanned ==
    IF pstatus # "returned" \/ Len(nodes) # 1 THEN {}
    ELSE {Seen(nodes[1].node, DeclSpan(given))}
         \cup (IF given.family = "signed_option"
               THEN {Seen(nodes[1].node.value.value, ValueSpan(given))} ELSE {})
         \cup (IF given.family = "typed_field"
               THEN {Seen(nodes[1].node.value.elements[1].value.decl.type_name,
                          TypeSpan(given))} ELSE {})

\* C17: every node has start <= end and an end that is not before the
\* position of the last token consumed for it: the declaration node, the
\* value node of an option written as a sign and a numeric literal, with or
\* without whitespace between them, and the node of a type name, absolute or
\* not.
C17_EndNotBeforeLastToken ==
    \A s \in Spanned : s.start <= s.end /\ s.end >= s.span.last

\* C18: the range [start, end) of every node covers exactly the tokens
\* consumed for it: it starts at the position of the first one and ends at
\* the end of the last one, the terminating `;` or `}` included.
C18_SpanCoversConsumedTokens ==
    \A s \in Spanned : s.start = s.span.first /\ s.end = s.span.after

-----------------------------------------------------------------------------
(* SpecElements: parse on messages of one map field or one reserved        *)
(* declaration                                                             *)

MaxRanges == 2

\* The 12 key words of a map field, each with its MapKeyType
KeyWords ==
    {<<W_int32, "Int32">>, <<W_int64, "Int64">>, <<W_uint32, "Uint32">>,
     <<W_uint64, "Uint64">>, <<W_sint32, "Sint32">>, <<W_sint64, "Sint64">>,
     <<W_fixed32, "Fixed32">>, <<W_fixed64, "Fixed64">>, <<W_sfixed32, "Sfixed32">>,
     <<W_sfixed64, "Sfixed64">>, <<W_bool, "Bool">>, <<W_string, "String">>}

\* Words that are no key word: the other scalars and a message type name
OtherWords == {W_float, W_double, W_bytes, N_Test}

\* message M { map < key , value > g = 7 ; }
MapOf(key, value) ==
    [kind |-> "raw", key |-> key,
     lexemes |-> <<W_map, <<"<">>, key, <<",">>, value, <<">">>, N_g, <<"=">>, Digits(7), <<";">>>>]

MapKeyFiles ==
    {File("map_key", <<MessageDecl(N_M, <<MapOf(key, value)>>)>>, sep) :
        key \in {k[1] : k \in KeyWords} \cup OtherWords, value \in {W_int32, N_Test},
        sep \in Seps}

\* Items of a reserved list: N, N to M, N to max, and a name
R_1 == [start |-> 1, end |-> <<>>, lexemes |-> <<Digits(1)>>]
R_2_to_5 == [start |-> 2, end |-> <<[type |-> "Tag", n |-> 5]>>,
             lexemes |-> <<Digits(2), W_to, Digits(5)>>]
R_9_to_max == [start |-> 9, end |-> <<[type |-> "Max", n |-> 0]>>,
               lexemes |-> <<Digits(9), W_to, W_max>>]
R_name == [start |-> -1, end |-> <<>>, lexemes |-> <<S_f>>]

RECURSIVE CommaList(_)
CommaList(items) ==
    IF Len(items) = 1 THEN items[1].lexemes
    ELSE items[1].lexemes \o <<<<",">>>> \o CommaList(Tail(items))

\* message M { reserved items ; }
ReservedOf(items) ==
    [kind |-> "raw", items |-> items,
     lexemes |-> <<W_reserved>> \o CommaList(items) \o <<<<";">>>>]

ReservedFiles ==
    {File("reserved", <<MessageDecl(N_M, <<ReservedOf(items)>>)>>, sep) :
        items \in SeqsOf({R_1, R_2_to_5, R_9_to_max, R_name}, 1, MaxRanges), sep \in Seps}

ElementsInit ==
    /\ given \in MapKeyFiles \cup ReservedFiles
    /\ \E text \in {Text(given)} : tokens = tokenize(text)
    /\ p = 1 /\ nodes = <<>> /\ errors = <<>> /\ pstatus = "running"
    /\ LexIdle /\ StoreIdle

SpecElements == ElementsInit /\ [][ParseNext]_vars

\* The elements of a given type of the messages of the Root
ElementsOfType(type) ==
    UNION {{[file |-> i, at |-> j] : j \in {k \in 1..Len(nodes[i].node.value.elements) :
                                    nodes[i].node.value.elements[k].value.type = type}} :
           i \in {k \in 1..Len(nodes) : nodes[k].type = "MessageDeclaration"}}

\* The Root is one message of one element, of the type
OneElement(type) ==
    /\ errors = <<>>
    /\ Len(nodes) = 1
    /\ nodes[1].type = "MessageDeclaration"
    /\ Len(nodes[1].node.value.elements) = 1
    /\ nodes[1].node.value.elements[1].value.type = type

\* C19: `map < K , V > name = number ;` gives a MapField node exactly when K
\* is one of the 12 key words; for float, double, bytes and a message type
\* name the parser records a ParseError and gives no MapField node; and
\* is_map_key_type accepts the token kinds the conversion to MapKeyType
\* accepts.
C19_MapKeyTypes ==
    /\ \A kind \in Range(KEYWORD) \cup Range(OPERATORS) \cup {"Identifier", "IntLiteral", "String"} :
          is_map_key_type(kind) <=> MapKeyType(kind) # "Err"
    /\ Cardinality(KeyWords) = 12
    /\ given.family = "map_key" =>
          /\ pstatus # "aborted"
          /\ pstatus = "returned" =>
                LET key == given.decls[1].body[1].key IN
                IF \E k \in KeyWords : k[1] = key
                THEN /\ OneElement("MapFieldDeclaration")
                     /\ <<key, nodes[1].node.value.elements[1].value.decl.key_type.value>>
                           \in KeyWords
                ELSE /\ errors # <<>>
                     /\ ElementsOfType("MapFieldDeclaration") = {}

\* A map field with key sfixed64 and a message type as value has been parsed.
C19_MapParsed ==
    /\ given.family = "map_key"
    /\ pstatus = "returned"
    /\ given.decls[1].body[1].key = W_sfixed64
    /\ OneElement("MapFieldDeclaration")
    /\ nodes[1].node.value.elements[1].value.decl.value_type.value.type = "TypeName"

\* What a parsed TagRange says
RangeSummary(r) ==
    [start |-> r.value.start.value,
     end |-> IF r.value.end = <<>> THEN <<>> ELSE <<r.value.end[1].value>>]

\* C20: in a message body, `reserved` followed by comma-separated items `N`,
\* `N to M` or `N to max` and a `;` parses with zero errors to
\* Reserved::TagRanges with one TagRange per item, in order, whose end is
\* absent, Tag(M) or Max; a list that mixes ranges and strings gives a
\* ParseError and no Reserved value.
C20_ReservedRanges ==
    given.family = "reserved" =>
        LET items == given.decls[1].body[1].items
            names == {i \in 1..Len(items) : items[i] = R_name}
        IN IF names = {} THEN
               /\ pstatus # "aborted"
               /\ pstatus = "returned" =>
                     /\ OneElement("ReservedDeclaration")
                     /\ LET decl == nodes[1].node.value.elements[1].value.decl IN
                        /\ decl.type = "TagRanges"
                        /\ [i \in 1..Len(decl.items) |-> RangeSummary(decl.items[i])]
                              = [i \in 1..Len(items) |-> [start |-> items[i].start,
                                                           end |-> items[i].end]]
           ELSE IF Cardinality(names) < Len(items) THEN
               /\ pstatus # "aborted"
               /\ pstatus = "returned" =>
                     /\ errors # <<>>
                     /\ ElementsOfType("ReservedDeclaration") = {}
           ELSE TRUE

-----------------------------------------------------------------------------
(* SpecDecls: parse on enums, services, option lists, option names, tags   *)

MaxEnumItems == 2

L_2147483647 == <<"2","1","4","7","4","8","3","6","4","7">>
L_2147483648 == <<"2","1","4","7","4","8","3","6","4","8">>

\* Items of an enum body: the lexemes written and the element they denote
EnumItem(type, name, number, lexemes) ==
    [type |-> type, name |-> name, number |-> number, lexemes |-> lexemes]

E_A == EnumItem("EnumValue", N_A, 0, <<N_A, <<"=">>, Digits(0), <<";">>>>)
E_b == EnumItem("EnumValue", N_b, -1, <<N_b, <<"=">>, <<"-">>, Digits(1), <<";">>>>)
E_c == EnumItem("EnumValue", N_c, 2147483647, <<N_c, <<"=">>, L_2147483647, <<";">>>>)
E_d == EnumItem("EnumValue", N_d, -2147483647 - 1,
                <<N_d, <<"=">>, <<"-">>, L_2147483648, <<";">>>>)
E_option == EnumItem("EnumOption", <<>>, 0, <<W_option, N_x, <<"=">>, Digits(5), <<";">>>>)
E_reserved == EnumItem("EnumReserved", <<>>, 0, <<W_reserved, Digits(1), <<";">>>>)
E_empty == EnumItem("Empty", <<>>, 0, <<<<";">>>>)

EnumItems == {E_A, E_b, E_c, E_d, E_option, E_reserved, E_empty}

RECURSIVE EnumLexemes(_)
EnumLexemes(items) ==
    IF items = <<>> THEN <<>> ELSE items[1].lexemes \o EnumLexemes(Tail(items))

\* enum Bar { items }
EnumOf(items) ==
    [kind |-> "raw", items |-> items,
     lexemes |-> <<W_enum, N_Bar, <<"{">>>> \o EnumLexemes(items) \o <<<<"}">>>>]

\* At top level, and nested in message M { }
EnumFiles ==
    {File("enum", <<EnumOf(items)>>, sep) :
        items \in SeqsOf(EnumItems, 1, MaxEnumItems), sep \in Seps}
    \cup {File("nested_enum", <<MessageDecl(N_M, <<EnumOf(items)>>)>>, sep) :
        items \in SeqsOf(EnumItems, 1, MaxEnumItems), sep \in Seps}

\* What a parsed enum element says
EnumElementSummary(e) ==
    IF e.value.type = "EnumValue"
    THEN [type |-> "EnumValue", name |-> e.value.name, number |-> e.value.number]
    ELSE [type |-> e.value.type, name |-> <<>>, number |-> 0]

\* The node is an EnumNode with one element per item, as written
EnumAsWritten(node, items) ==
    /\ node.value.name = N_Bar
    /\ [i \in 1..Len(node.value.elements) |-> EnumElementSummary(node.value.elements[i])]
          = [i \in 1..Len(items) |->
                [type |-> items[i].type, name |-> items[i].name, number |-> items[i].number]]

\* C21: `enum IDENT { items }`, at top level or nested in a message, parses
\* with zero errors into an EnumNode with one element per value, reserved,
\* option or empty item, in source order; the number of each value is its
\* literal with the optional minus applied, over -2147483648..2147483647.
C21_EnumDeclaration ==
    /\ given.family = "enum" =>
          /\ pstatus # "aborted"
          /\ pstatus = "returned" =>
                /\ errors = <<>>
                /\ Len(nodes) = 1
                /\ nodes[1].type = "EnumDeclaration"
                /\ EnumAsWritten(nodes[1].node, given.decls[1].items)
    /\ given.family = "nested_enum" =>
          /\ pstatus # "aborted"
          /\ pstatus = "returned" =>
                /\ OneElement("EnumDeclaration")
                /\ EnumAsWritten(nodes[1].node.value.elements[1].value.decl,
                                 given.decls[1].body[1].items)

MaxServiceItems == 2

T_Req == Named(FALSE, <<N_Req>>)
T_a_Req == Named(TRUE, <<N_a, N_Req>>)

\* Items of a service body: the lexemes written and the element they denote
NoType == [stream |-> FALSE, name |-> [absolute |-> FALSE, parts |-> <<>>]]
ServiceItem(type, lexemes) ==
    [type |-> type, name |-> <<>>, input |-> NoType, output |-> NoType, body |-> <<>>,
     lexemes |-> lexemes]

V_option == ServiceItem("Option", <<W_option, N_x, <<"=">>, Digits(5), <<";">>>>)
V_empty == ServiceItem("Empty", <<<<";">>>>)

\* The ways an rpc ends: `;`, `{ }`, `{ option x = 5 ; ; }`
RpcEnds ==
    {[body |-> <<>>, lexemes |-> <<<<";">>>>],
     [body |-> <<>>, lexemes |-> <<<<"{">>, <<"}">>>>],
     [body |-> <<"Option", "Empty">>,
      lexemes |-> <<<<"{">>>> \o V_option.lexemes \o V_empty.lexemes \o <<<<"}">>>>]}

\* rpc name ( [stream] request ) returns ( [stream] response ) end
RpcItem(name, in_stream, request, out_stream, response, end) ==
    [type |-> "Method", name |-> name,
     input |-> [stream |-> in_stream, name |-> request.value.name],
     output |-> [stream |-> out_stream, name |-> response.value.name],
     body |-> end.body,
     lexemes |-> <<W_rpc, name, <<"(">>>> \o (IF in_stream THEN <<W_stream>> ELSE <<>>)
                 \o RenderType(request) \o <<<<")">>, W_returns, <<"(">>>>
                 \o (IF out_stream THEN <<W_stream>> ELSE <<>>)
                 \o RenderType(response) \o <<<<")">>>> \o end.lexemes]

ServiceItems ==
    {V_option, V_empty}
    \cup {RpcItem(N_a, in_stream, types[1], out_stream, types[2], end) :
            in_stream \in BOOLEAN, out_stream \in BOOLEAN,
            types \in {<<T_Req, T_a_Req>>, <<T_a_Req, T_Req>>}, end \in RpcEnds}

\* service Foo { items }
ServiceOf(items) ==
    [kind |-> "raw", items |-> items,
     lexemes |-> <<W_service, N_Foo, <<"{">>>> \o EnumLexemes(items) \o <<<<"}">>>>]

ServiceFiles ==
    {File("service", <<ServiceOf(items)>>, sep) :
        items \in SeqsOf(ServiceItems, 1, MaxServiceItems), sep \in Seps}

\* What a parsed service element says
MessageTypeSummary(t) == [stream |-> t.value.stream, name |-> t.value.type_name.value]
ServiceElementSummary(e) ==
    IF e.value.type = "Method"
    THEN [type |-> "Method", name |-> e.value.name,
          input |-> MessageTypeSummary(e.value.input_type),
          output |-> MessageTypeSummary(e.value.output_type),
          body |-> [i \in 1..Len(e.value.elements) |-> e.value.elements[i].value.type]]
    ELSE [type |-> e.value.type, name |-> <<>>, input |-> NoType, output |-> NoType,
          body |-> <<>>]

\* C22: a service whose body holds option statements, empty statements and
\* rpc items ending in `;` or in a body of options and empty statements
\* parses with zero errors into a ServiceNode with one element per item, in
\* source order; each Method has the name, the input and output types with
\* stream flags as written, and one body element per option or `;`.
C22_ServiceDeclaration ==
    given.family = "service" =>
        /\ pstatus # "aborted"
        /\ pstatus = "returned" =>
              /\ errors = <<>>
              /\ Len(nodes) = 1
              /\ nodes[1].type = "ServiceDeclaration"
              /\ nodes[1].node.value.name = N_Foo
              /\ LET elements == nodes[1].node.value.elements
                     items == given.decls[1].items
                 IN [i \in 1..Len(elements) |-> ServiceElementSummary(elements[i])]
                       = [i \in 1..Len(items) |->
                             [type |-> items[i].type, name |-> items[i].name,
                              input |-> items[i].input, output |-> items[i].output,
                              body |-> items[i].body]]

\* A service of an option and a client-streaming rpc with a body of two
\* elements has been parsed.
C22_StreamingRpcParsed ==
    /\ given.family = "service"
    /\ pstatus = "returned"
    /\ errors = <<>>
    /\ Len(nodes) = 1
    /\ Len(nodes[1].node.value.elements) = 2
    /\ nodes[1].node.value.elements[1].value.type = "Option"
    /\ nodes[1].node.value.elements[2].value.type = "Method"
    /\ nodes[1].node.value.elements[2].value.input_type.value.stream
    /\ ~nodes[1].node.value.elements[2].value.output_type.value.stream
    /\ Len(nodes[1].node.value.elements[2].value.elements) = 2
MaxOptions == 2

\* Entries of a compact option list: name = value
O_x_5 == [name |-> N_x, value |-> Digits(5), lexemes |-> <<N_x, <<"=">>, Digits(5)>>]
O_y_true == [name |-> N_y, value |-> N_true, lexemes |-> <<N_y, <<"=">>, N_true>>]
O_a_f == [name |-> N_a, value |-> S_f, lexemes |-> <<N_a, <<"=">>, S_f>>]

\* [ entries ]
Compact(options) == <<<<"[">>>> \o CommaList(options) \o <<<<"]">>>>

\* A field of a message, a map field, a field of a oneof, with the list
\* after its number
WithOptions(where, options) ==
    [kind |-> "raw", where |-> where, options |-> options,
     lexemes |->
        CASE where = "field" ->
                <<W_int32, N_a, <<"=">>, Digits(1)>> \o Compact(options) \o <<<<";">>>>
          [] where = "map" ->
                <<W_map, <<"<">>, W_string, <<",">>, W_int32, <<">">>, N_g, <<"=">>, Digits(7)>>
                \o Compact(options) \o <<<<";">>>>
          [] where = "oneof" ->
                <<W_oneof, N_c, <<"{">>, W_int32, N_d, <<"=">>, Digits(4)>>
                \o Compact(options) \o <<<<";">>, <<"}">>>>]

CompactFiles ==
    {File("compact", <<MessageDecl(N_M, <<WithOptions(where, options)>>)>>, sep) :
        where \in {"field", "map", "oneof"},
        options \in SeqsOf({O_x_5, O_y_true, O_a_f}, 1, MaxOptions), sep \in Seps}

\* What a list of parsed OptionNodes says
OptionsSummary(options) ==
    [i \in 1..Len(options) |->
        [name |-> [j \in 1..Len(options[i].value.name.value) |->
                      options[i].value.name.value[j].value.name],
         value |-> options[i].value.value.value.value]]

\* The options of the field the message holds
OptionsRead(element) ==
    CASE element.value.type = "OneOfDeclaration" ->
            IF Len(element.value.decl.elements) = 1
               /\ element.value.decl.elements[1].value.type = "OneofField"
               /\ element.value.decl.elements[1].value.decl.options # <<>>
            THEN OptionsSummary(element.value.decl.elements[1].value.decl.options[1])
            ELSE <<>>
      [] OTHER -> OptionsSummary(element.value.decl.options)

\* C23: a compact option list after the tag number of a message field, a map
\* field or a oneof field parses with zero errors, and the options of the
\* field hold one OptionNode per entry, in source order.
C23_CompactOptions ==
    given.family = "compact" =>
        /\ pstatus # "aborted"
        /\ pstatus = "returned" =>
              LET item == given.decls[1].body[1] IN
              /\ OneElement(CASE item.where = "field" -> "FieldDeclaration"
                              [] item.where = "map" -> "MapFieldDeclaration"
                              [] item.where = "oneof" -> "OneOfDeclaration")
              /\ OptionsRead(nodes[1].node.value.elements[1])
                    = [i \in 1..Len(item.options) |->
                          [name |-> <<item.options[i].name>>,
                           value |-> item.options[i].value]]
MaxNameParts == 2

\* Parts of an option name: a bare identifier, or ( possibly.dotted.name )
SimplePart(name) ==
    [type |-> "SimpleName", name |-> [absolute |-> FALSE, parts |-> <<name>>],
     lexemes |-> <<name>>]
ExtensionPart(parts) ==
    [type |-> "ExtensionName", name |-> [absolute |-> FALSE, parts |-> parts],
     lexemes |-> <<<<"(">>>> \o Dotted(parts) \o <<<<")">>>>]

NameParts ==
    {SimplePart(N_x), SimplePart(N_y), ExtensionPart(<<N_Foo>>), ExtensionPart(<<N_Foo, N_Bar>>)}

\* option parts = 5 ;
NamedOption(parts) ==
    [kind |-> "raw", parts |-> parts,
     lexemes |-> <<W_option>> \o EnumLexemes(parts) \o <<<<"=">>, Digits(5), <<";">>>>]

OptionNameFiles ==
    {File("option_name", <<NamedOption(parts)>>, sep) :
        parts \in SeqsOf(NameParts, 1, MaxNameParts), sep \in Seps}

\* What a parsed OptionNamePart says
NamePartSummary(part) ==
    [type |-> part.value.type,
     name |-> IF part.value.type = "SimpleName"
              THEN [absolute |-> FALSE, parts |-> <<part.value.name>>]
              ELSE part.value.name]

\* C24: an option whose name is a sequence of bare identifiers and
\* parenthesized, possibly dotted, extension names parses with zero errors
\* into an OptionNode with one name part per written part, in order:
\* SimpleName for an identifier, ExtensionName for a parenthesized name.
C24_OptionName ==
    given.family = "option_name" =>
        /\ pstatus # "aborted"
        /\ pstatus = "returned" =>
              /\ errors = <<>>
              /\ Len(nodes) = 1
              /\ nodes[1].type = "OptionDeclaration"
              /\ LET name == nodes[1].node.value.name.value
                     parts == given.decls[1].parts
                 IN [i \in 1..Len(name) |-> NamePartSummary(name[i])]
                       = [i \in 1..Len(parts) |->
                             [type |-> parts[i].type, name |-> parts[i].name]]
\* Tag literals.  fits: a decimal literal of 0..4294967295; number: its value
\* (a value above 2147483647 as value - 2^32, as parse_u32 carries it).
TagLiteral(lexeme, fits, number) == [lexeme |-> lexeme, fits |-> fits, number |-> number]

L_4294967295 == <<"4","2","9","4","9","6","7","2","9","5">>
L_4294967296 == <<"4","2","9","4","9","6","7","2","9","6">>
L_0x10 == <<"0","x","1","0">>

TagLiterals ==
    {TagLiteral(Digits(0), TRUE, 0), TagLiteral(Digits(1), TRUE, 1),
     TagLiteral(Digits(536870911), TRUE, 536870911),
     TagLiteral(L_2147483647, TRUE, 2147483647),
     TagLiteral(L_2147483648, TRUE, -2147483647 - 1),
     TagLiteral(L_4294967295, TRUE, -1),
     TagLiteral(L_4294967296, FALSE, 0),
     TagLiteral(L_0x10, FALSE, 0)}

\* A field of a message, a map field, a field of a oneof, with the tag
Tagged(where, tag) ==
    [kind |-> "raw", where |-> where, tag |-> tag,
     lexemes |->
        CASE where = "field" -> <<W_int32, N_a, <<"=">>, tag.lexeme, <<";">>>>
          [] where = "map" ->
                <<W_map, <<"<">>, W_string, <<",">>, W_int32, <<">">>, N_g, <<"=">>,
                  tag.lexeme, <<";">>>>
          [] where = "oneof" ->
                <<W_oneof, N_c, <<"{">>, W_int32, N_d, <<"=">>, tag.lexeme, <<";">>, <<"}">>>>]

\* message M { field } and message M { field } message N { }
TagFiles ==
    {File("tag", <<MessageDecl(N_M, <<Tagged(where, tag)>>)>> \o rest, sep) :
        where \in {"field", "map", "oneof"}, tag \in TagLiterals,
        rest \in {<<>>, <<MessageDecl(N_N, <<>>)>>}, sep \in Seps}

\* The number of the field the message holds
NumberRead(element) ==
    IF element.value.type = "OneOfDeclaration"
    THEN element.value.decl.elements[1].value.decl.number.value
    ELSE element.value.decl.number.value

\* C27: on a message field, a map field and a oneof field, a decimal tag of
\* 0..4294967295 is stored with its value; for any other IntLiteral tag (above
\* 4294967295, or a hex literal) the parser records a ParseError and goes on:
\* the parse does not abort.
C27_TagNumbers ==
    given.family = "tag" =>
        LET item == given.decls[1].body[1] IN
        /\ pstatus # "aborted"
        /\ pstatus = "returned" =>
              IF item.tag.fits
              THEN /\ errors = <<>>
                   /\ Len(nodes) = Len(given.decls)
                   /\ Len(nodes[1].node.value.elements) = 1
                   /\ NumberRead(nodes[1].node.value.elements[1]) = item.tag.number
              ELSE /\ errors # <<>>
                   /\ Len(nodes) = Len(given.decls) - 1
-----------------------------------------------------------------------------
(* Recovery, line ends, termination                                        *)

Synchronizing == {"RBrace", "SemiColon"}

MaxLines == 2

\* One or two declarations, with blanks or line ends between the lexemes
LineDecls ==
    {SyntaxDecl(S_proto3), PackageDecl(<<N_a>>), ImportDecl(<<>>, S_f),
     MessageDecl(N_M, <<I_a>>), ServiceDecl(N_Foo, <<Rpc(N_a, N_Req, N_Req, FALSE, FALSE)>>)}

LineFiles ==
    {File("lines", decls, sep) : decls \in SeqsOf(LineDecls, 1, MaxLines), sep \in Seps}

\* The token sequence with a NewLine token put in front of token i, and with
\* token i taken out
NewLineToken(position) == Token(<<"\n">>, "NewLine", position)
WithNewLine(toks, i) ==
    SubSeq(toks, 1, i - 1) \o <<NewLineToken(toks[i].position)>> \o SubSeq(toks, i, Len(toks))
WithoutToken(toks, i) == SubSeq(toks, 1, i - 1) \o SubSeq(toks, i + 1, Len(toks))

\* The structure of a result: whether parse returned, the declarations of the
\* Root in order, the number of elements each one holds, the number of errors
Elements(root_node_) ==
    IF root_node_.type \in {"MessageDeclaration", "ServiceDeclaration", "EnumDeclaration"}
    THEN Len(root_node_.node.value.elements) ELSE 0
Structure(st, ns, es) ==
    [returned |-> st = "returned",
     declarations |-> [i \in 1..Len(ns) |-> [type |-> ns[i].type, elements |-> Elements(ns[i])]],
     errors |-> Len(es)]
StructureOf(s) == Structure(s.st, s.nodes, s.errors)

\* C26: putting a NewLine token between two adjacent tokens, or taking one
\* out, changes neither the declarations of the resulting Root nor the number
\* of ParseErrors.
C26_NewLinesTransparent ==
    (given.family = "lines" /\ pstatus \in {"returned", "aborted"}) =>
        /\ \A i \in 2..Len(tokens) :
              StructureOf(parse(WithNewLine(tokens, i))) = Structure(pstatus, nodes, errors)
        /\ \A i \in 2..(Len(tokens) - 1) :
              tokens[i].kind = "NewLine" =>
                 StructureOf(parse(WithoutToken(tokens, i))) = Structure(pstatus, nodes, errors)
-----------------------------------------------------------------------------
(* SpecProgress: Parser::parse, its loop always going on, on the tokens of *)
(* every sequence of at most MaxPhrases phrases of Phrases                 *)

MaxPhrases == 3

\* Pieces of text: two declarations, and lexemes that make neither
Phrases ==
    {<<W_message, N_M, <<"{">>, <<"}">>>>, <<W_package, N_M, <<";">>>>,
     <<W_extend>>, <<N_M>>, <<<<"{">>>>, <<<<"}">>>>, <<<<";">>>>}

ProgressInit ==
    /\ \E phrases \in SeqsOf(Phrases, 0, MaxPhrases) :
          /\ given = [family |-> "phrases", phrases |-> phrases]
          /\ \E text \in {Join(Flatten(phrases), <<" ">>)} : tokens = tokenize(text)
    /\ p = 1 /\ nodes = <<>> /\ errors = <<>> /\ pstatus = "running"
    /\ LexIdle /\ StoreIdle

\* The loop of parse keeps running: no step of it waits for anything.
SpecProgress == ProgressInit /\ [][ParseNext]_vars /\ WF_vars(ParseNext)

\* C28: every iteration of the loop of parse that does not abort consumes at
\* least one token, so the tokens left strictly decrease; and parse comes to
\* its end.
C28_ParseTerminates ==
    /\ [][(pstatus = "running" /\ pstatus' = "running") =>
             /\ p' > p
             /\ Len(tokens) + 1 - p' < Len(tokens) + 1 - p
             /\ p' <= Len(tokens) + 1]_vars
    /\ (pstatus = "running") ~> (pstatus \in {"returned", "aborted"})

\* parse has returned from `extend ; message M { }`: an error, then a
\* declaration.
C28_ReturnedAfterExtend ==
    /\ pstatus = "returned"
    /\ Len(tokens) = 6
    /\ tokens[1].kind = "Keyword(Extend)"
    /\ Len(errors) = 1
    /\ Len(nodes) = 1
    /\ p = Len(tokens) + 1
-----------------------------------------------------------------------------
(* Integer tokens, end of file                                             *)

WellFormedInteger(v) == AllIn(v, 1, DecDigits) \/ OctalForm(v) \/ HexForm(v)

\* C29: the value of every IntLiteral token tokenize emits is decimal digits
\* only, or `0` followed by octal digits, or `0x`/`0X` followed by hex digits:
\* a digit run that goes on with letters or with `+`/`-` is no IntLiteral.
C29_IntLiteralsWellFormed ==
    \A i \in 1..Len(emitted) :
        emitted[i].kind = "IntLiteral" => WellFormedInteger(emitted[i].value)
\* One declaration, or two with blanks or a NUL character between them, and
\* with or without a blank at the end of the text
Gaps == {<<>>, <<Raw(<<<<EOF_CHAR>>>>)>>}
Ends == {<<>>, <<Raw(<<<<" ">>>>)>>}

EofFiles ==
    {File("eof", <<first_>> \o gap \o second_ \o end_, sep) :
        first_ \in {MessageDecl(N_M, <<>>), SyntaxDecl(S_proto3)},
        gap \in Gaps,
        second_ \in {<<>>, <<MessageDecl(N_N, <<I_a>>)>>, <<ImportDecl(<<>>, S_f)>>},
        end_ \in Ends, sep \in Seps}

\* C30: an Eof token is emitted only when no input characters remain: it
\* reaches the end of the text, no token follows it, and its value is text of
\* the input; so parse, which stops at the first Eof token, leaves no token
\* of a declaration unread.
C30_EofOnlyAtEnd ==
    given.family = "eof" =>
        LET text == Text(given) IN
        /\ \A i \in 1..Len(tokens) :
              tokens[i].kind = "Eof" =>
                 /\ tokens[i].position + Len(tokens[i].value) >= Len(text)
                 /\ i = Len(tokens)
                 /\ tokens[i].position + Len(tokens[i].value) <= Len(text)
                 /\ SubSeq(text, tokens[i].position + 1,
                           tokens[i].position + Len(tokens[i].value)) = tokens[i].value
        /\ pstatus = "returned" =>
              \A i \in p..Len(tokens) : tokens[i].kind \in {"Eof", "NewLine"}

-----------------------------------------------------------------------------
(* SpecDecls: the runs                                                     *)

DeclFiles ==
    EnumFiles \cup ServiceFiles \cup CompactFiles \cup OptionNameFiles \cup TagFiles \cup LineFiles \cup EofFiles

DeclsInit ==
    /\ given \in DeclFiles
    /\ \E text \in {Text(given)} : tokens = tokenize(text)
    /\ p = 1 /\ nodes = <<>> /\ errors = <<>> /\ pstatus = "running"
    /\ LexIdle /\ StoreIdle

SpecDecls == DeclsInit /\ [][ParseNext]_vars

====
